---------------------------- MODULE Spec2Model ----------------------------
(***************************************************************************)
(* Nordique LMC: the multi-agent consensus analyzer                        *)
(* (src/consensus_analyzer.py) and the text primitives of the LMC          *)
(* calculator it uses (src/lmc_calculator.py).                             *)
(*                                                                         *)
(* A text is a TLA+ string; Len, SubSeq and \o act on strings character by *)
(* character.  A Python float that is a quotient of two integers is kept   *)
(* as the exact fraction [num |-> a, den |-> b].                           *)
(***************************************************************************)
EXTENDS Integers, Sequences, FiniteSets, TLC

VARIABLES
    responses,             \* the mapping passed to analyze_responses, in insertion order
    similarity_threshold,  \* ConsensusAnalyzer.similarity_threshold
    pc,                    \* position inside analyze_responses
    all_concepts,          \* local of analyze_responses (dict, insertion order)
    consensus_concepts,    \* local of analyze_responses
    all_claims,            \* local of analyze_responses (dict ai -> claims)
    ai_idx,                \* _find_consensus_claims: index i of the outer loop
    claim_idx,             \* _find_consensus_claims: index of claim1 in all_claims[ai1]
    processed,             \* _find_consensus_claims: the set `processed`
    clusters,              \* _find_consensus_claims: consensus_claims before the sort
    seeds,                 \* history: one entry per seed iteration (seed, similar_claims)
    consensus_claims,      \* local of analyze_responses
    divergences,           \* local of analyze_responses
    emergent_insights,     \* local of analyze_responses
    insights,              \* local of analyze_responses
    result,                \* the returned dict (None until the call returns)
    calls,                 \* history: analyze_responses calls begun on the analyzer
    epsilon,               \* LMCCalculator.epsilon
    stopwords,             \* LMCCalculator.stopwords
    call,                  \* the LMCCalculator method called last, with its arguments
    ret,                   \* what that call returned or raised
    min_length,            \* st.session_state.settings['min_length']
    num_ais,               \* st.session_state.num_ais
    contents,              \* the texts of the text areas, slot by slot
    stored,                \* st.session_state.responses, in insertion order
    rendered,              \* how many slots the last run of the script rendered
    runs                   \* history: runs of the script in the session

vars == <<responses, similarity_threshold, pc, all_concepts, consensus_concepts,
          all_claims, ai_idx, claim_idx, processed, clusters, seeds,
          consensus_claims, divergences, emergent_insights, insights, result,
          calls, epsilon, stopwords, call, ret, min_length, num_ais, contents, stored,
          rendered, runs>>

\* The session state of the application
app_vars == <<min_length, num_ais, contents, stored, rendered, runs>>

\* No application around the analyzer or the calculator
NoApp ==
    /\ min_length = 0
    /\ num_ais = 0
    /\ contents = <<>>
    /\ stored = <<>>
    /\ rendered = 0
    /\ runs = 0

\* The calculator's fields and the record of its last direct call.
lmc_vars == <<epsilon, stopwords, call, ret>>

None == "None"

-----------------------------------------------------------------------------
(* Model bounds.                                                           *)

\* Largest number of agents of a mapping drawn from the text bank.
MaxAgents == 4

-----------------------------------------------------------------------------
(* Fractions standing for Python floats.                                   *)

Frac(a, b) == [num |-> a, den |-> b]
FracEq(x, y) == x.num * y.den = y.num * x.den
FracGeq(x, y) == x.num * y.den >= y.num * x.den
FracGt(x, y) == x.num * y.den > y.num * x.den

\* a float sum, product and min(x, y), on the exact values, in lowest terms
RECURSIVE GCD(_, _)
GCD(a, b) == IF b = 0 THEN a ELSE GCD(b, a % b)
Reduced(a, b) == IF a = 0 THEN Frac(0, 1) ELSE Frac(a \div GCD(a, b), b \div GCD(a, b))
FracAdd(x, y) == Reduced(x.num * y.den + y.num * x.den, x.den * y.den)
FracMul(x, y) == Reduced(x.num * y.num, x.den * y.den)
FracMin(x, y) == IF FracGeq(x, y) THEN y ELSE x

Min2(a, b) == IF a < b THEN a ELSE b
Max2(a, b) == IF a > b THEN a ELSE b

-----------------------------------------------------------------------------
(* Characters and the regular expressions of the source.                   *)

Char(s, i) == SubSeq(s, i, i)
CharsOf(s) == {Char(s, i) : i \in 1..Len(s)}

AsciiLower == "abcdefghijklmnopqrstuvwxyz"
AsciiUpper == "ABCDEFGHIJKLMNOPQRSTUVWXYZ"
AccentLower == "àâäéèêëïîôöùûüæç"
AccentUpper == "ÀÂÄÉÈÊËÏÎÔÖÙÛÜÆÇ"
Digits == "0123456789"

\* the character class [a-z...] of the concept regex (the ligature oe, outside
\* Latin-1, cannot be written in a TLA+ string and occurs in no text of the model)
ConceptClass == CharsOf(AsciiLower) \cup CharsOf(AccentLower)
\* the character class \w
WordClass ==
    CharsOf(AsciiLower) \cup CharsOf(AsciiUpper) \cup CharsOf(AccentLower)
        \cup CharsOf(AccentUpper) \cup CharsOf(Digits) \cup {"_"}
\* the character class \s
SpaceClass == {" ", "\t", "\n", "\r"}
\* the character class [.!?]
PunctClass == {".", "!", "?"}

LowerOf ==
    [c \in CharsOf(AsciiUpper) \cup CharsOf(AccentUpper) |->
        IF c \in CharsOf(AsciiUpper)
        THEN Char(AsciiLower, CHOOSE i \in 1..Len(AsciiUpper) : Char(AsciiUpper, i) = c)
        ELSE Char(AccentLower, CHOOSE i \in 1..Len(AccentUpper) : Char(AccentUpper, i) = c)]

\* str.lower()
RECURSIVE lower(_)
lower(s) ==
    IF Len(s) = 0 THEN s
    ELSE IF Len(s) = 1 THEN (IF s \in DOMAIN LowerOf THEN LowerOf[s] ELSE s)
    ELSE LET h == Len(s) \div 2
         IN  lower(SubSeq(s, 1, h)) \o lower(SubSeq(s, h + 1, Len(s)))

\* \b at the gap before position p (1 <= p <= Len(s) + 1)
Boundary(s, p) ==
    LET before == p > 1 /\ Char(s, p - 1) \in WordClass
        after == p <= Len(s) /\ Char(s, p) \in WordClass
    IN  before # after

\* Last position of the longest run of characters of cls starting at p (p - 1 if none).
RunEnd(s, p, cls) ==
    LET stops == {k \in p..Len(s) : Char(s, k) \notin cls}
    IN  IF stops = {} THEN Len(s)
        ELSE (CHOOSE k \in stops : \A j \in stops : k <= j) - 1

\* The match of \b<cls>{minLen,}\b anchored at p: its last position, or 0 when
\* there is none (greedy, backtracking to the longest run that ends at a \b).
WordMatchEnd(s, p, cls, minLen) ==
    IF ~Boundary(s, p) THEN 0
    ELSE LET g == RunEnd(s, p, cls)
             ends == {e \in (p + minLen - 1)..g : Boundary(s, e + 1)}
         IN  IF ends = {} THEN 0
             ELSE CHOOSE e \in ends : \A f \in ends : f <= e

\* re.findall(r'\b<cls>{minLen,}\b', s): leftmost, non-overlapping matches.
RECURSIVE FindAllFrom(_, _, _, _)
FindAllFrom(s, p, cls, minLen) ==
    LET starts == {q \in p..Len(s) : WordMatchEnd(s, q, cls, minLen) # 0}
    IN  IF starts = {} THEN <<>>
        ELSE LET q == CHOOSE x \in starts : \A y \in starts : x <= y
                 e == WordMatchEnd(s, q, cls, minLen)
             IN  <<SubSeq(s, q, e)>> \o FindAllFrom(s, e + 1, cls, minLen)

re_findall(s, cls, minLen) == FindAllFrom(s, 1, cls, minLen)

\* The match of [.!?]\s+|\n{2,} anchored at p: its last position, or 0.
SplitMatchEnd(s, p) ==
    IF Char(s, p) \in PunctClass /\ p < Len(s) /\ Char(s, p + 1) \in SpaceClass
    THEN RunEnd(s, p + 1, SpaceClass)
    ELSE IF Char(s, p) = "\n" /\ p < Len(s) /\ Char(s, p + 1) = "\n"
    THEN RunEnd(s, p, {"\n"})
    ELSE 0

\* re.split(r'[.!?]\s+|\n{2,}', s) on the part of s from position p on.
RECURSIVE SplitFrom(_, _)
SplitFrom(s, p) ==
    LET starts == {q \in p..Len(s) : SplitMatchEnd(s, q) # 0}
    IN  IF starts = {} THEN <<SubSeq(s, p, Len(s))>>
        ELSE LET q == CHOOSE x \in starts : \A y \in starts : x <= y
             IN  <<SubSeq(s, p, q - 1)>> \o SplitFrom(s, SplitMatchEnd(s, q) + 1)

re_split(s) == SplitFrom(s, 1)

\* str.strip()
strip(s) ==
    LET keep == {i \in 1..Len(s) : Char(s, i) \notin SpaceClass}
    IN  IF keep = {} THEN ""
        ELSE SubSeq(s, CHOOSE i \in keep : \A j \in keep : i <= j,
                       CHOOSE i \in keep : \A j \in keep : j <= i)

\* the Python test `sub in s` on strings
Contains(s, sub) ==
    \E i \in 1..(Len(s) - Len(sub) + 1) : SubSeq(s, i, i + Len(sub) - 1) = sub

\* seq[:n]
Take(seq, n) == SubSeq(seq, 1, Min2(n, Len(seq)))

Range(seq) == {seq[i] : i \in 1..Len(seq)}

-----------------------------------------------------------------------------
(* LMCCalculator: the primitives the analyzer uses.                        *)

\* LMCCalculator.__init__: epsilon: float = 0.001
DefaultEpsilon == Frac(1, 1000)

\* LMCCalculator.__init__: self.stopwords
StopWords ==
    {"cette", "comme", "dans", "pour", "avec", "sont", "leurs", "plus", "peut",
     "être", "fait", "permet", "avoir", "faire", "entre", "donc", "aussi", "ainsi",
     "selon", "toute", "tous", "était", "serait", "pourrait", "existe", "autres",
     "chaque", "peuvent", "encore", "toujours", "quelque", "certains", "plusieurs"}

\* LMCCalculator.split_sentences
split_sentences(text) ==
    IF text = "" THEN <<>>
    ELSE LET sentences == re_split(text)
             kept == SelectSeq(sentences, LAMBDA s : 20 < Len(s) /\ Len(s) < 500)
         IN  [i \in 1..Len(kept) |-> strip(kept[i])]

markers ==
    <<"est ", "sont ", "représente", "correspond", "signifie", "implique",
      "démontre", "prouve", "permet", "cause", "entraîne", "résulte",
      "montre", "indique", "suggère", "confirme", "révèle", "favorise",
      "aide", "améliore", "réduit", "augmente", "consiste">>

negations == <<"n'est pas", "ne sont pas", "n'a pas", "ne peut pas", "jamais", "aucun">>

\* LMCCalculator.extract_claims
extract_claims(text) ==
    IF text = "" \/ Len(text) < 100 THEN <<>>
    ELSE LET sentences == split_sentences(text)
             IsClaim(sentence) ==
                 LET sentence_lower == lower(sentence)
                     has_marker == \E i \in 1..Len(markers) : Contains(sentence_lower, markers[i])
                     has_negation ==
                         \E i \in 1..Len(negations) : Contains(sentence_lower, negations[i])
                 IN  has_marker \/ has_negation
             claims == SelectSeq(sentences, IsClaim)
         IN  Take(claims, 20)

\* The match of [.!?]\s+ anchored at p: its last position, or 0.
PunctSplitEnd(s, p) ==
    IF Char(s, p) \in PunctClass /\ p < Len(s) /\ Char(s, p + 1) \in SpaceClass
    THEN RunEnd(s, p + 1, SpaceClass)
    ELSE 0

\* re.split(r'[.!?]\s+', s) on the part of s from position p on.
RECURSIVE PunctSplitFrom(_, _)
PunctSplitFrom(s, p) ==
    LET starts == {q \in p..Len(s) : PunctSplitEnd(s, q) # 0}
    IN  IF starts = {} THEN <<SubSeq(s, p, Len(s))>>
        ELSE LET q == CHOOSE x \in starts : \A y \in starts : x <= y
             IN  <<SubSeq(s, p, q - 1)>> \o PunctSplitFrom(s, PunctSplitEnd(s, q) + 1)

\* [s.strip() for s in re.split(r'[.!?]\s+', text) if len(s) > 20]
CoherenceSentences(text) ==
    LET kept == SelectSeq(PunctSplitFrom(text, 1), LAMBDA s : Len(s) > 20)
    IN  [i \in 1..Len(kept) |-> strip(kept[i])]

\* The alternatives of the pattern of calculate_coherence, in its order
NegationPattern ==
    <<"n'est pas", "ne sont pas", "n'a pas", "ne peut pas", "jamais", "aucun">>

\* The alternative the pattern matches at position p of s: its length, or 0
NegationAt(s, p) ==
    LET fits == {i \in 1..Len(NegationPattern) :
                    /\ p + Len(NegationPattern[i]) - 1 <= Len(s)
                    /\ SubSeq(s, p, p + Len(NegationPattern[i]) - 1) = NegationPattern[i]}
    IN  IF fits = {} THEN 0
        ELSE Len(NegationPattern[CHOOSE i \in fits : \A j \in fits : i <= j])

\* len(re.findall(pattern, s)) on the part of s from position p on
RECURSIVE CountNegations(_, _)
CountNegations(s, p) ==
    LET starts == {q \in p..Len(s) : NegationAt(s, q) # 0}
    IN  IF starts = {} THEN 0
        ELSE LET q == CHOOSE x \in starts : \A y \in starts : x <= y
             IN  1 + CountNegations(s, q + NegationAt(s, q))

\* re.findall(r'\b[a-z...]{3,}\b', text.lower())
EntropyWords(text) == re_findall(lower(text), ConceptClass, 3)

\* set(re.findall(r'\b\w{4,}\b', claim.lower()))
ClaimWords(claim) == Range(re_findall(lower(claim), WordClass, 4))

\* re.findall(r'\b[a-z...]{4,}\b', content.lower())
ConceptWords(content) == re_findall(lower(content), ConceptClass, 4)

-----------------------------------------------------------------------------
(* The inputs: mappings agent -> ResponseData, in insertion order.         *)
(* analyze_responses reads only the key and the content of each entry.     *)

\* NordiqueLMCApp.default_ai_names
AgentNames ==
    <<"Claude", "ChatGPT", "Gemini", "Perplexity", "Llama", "Mistral", "GPT-4", "Grok">>

S1 == "Le miel aide la toux et le miel calme la gorge"
S2 == "Le miel calme la toux et aide la gorge"
S3 == "La gorge et la toux, le miel aide et calme"
S4 == "Le repos est essentiel pour guérir vite"
S5 == "Le miel aide la toux mais pas le rhume"

TextA == S1 \o ". " \o S4 \o ". Dormir tôt, dormir bien."
TextB == S2 \o "! " \o S3 \o "?\n" \o S4 \o "."
TextC == "MIEL miel_2 miel, repos repos repos; thé thé"
TextD == S5 \o ".\n\n" \o S1 \o ". Le Miel soigne la toux."

TextBank == {"", TextA, TextB, TextC, TextD}

\* A mapping whose i-th key is AgentNames[i] and whose i-th content is texts[i].
Mapping(texts) == [i \in 1..Len(texts) |-> [name |-> AgentNames[i], content |-> texts[i]]]

BankInputs == UNION {{Mapping(t) : t \in [1..n -> TextBank]} : n \in 0..MaxAgents}

\* Generated vocabulary for the inputs that reach the top-K truncations.
Mot(i) == "mot" \o Char(AsciiLower, (i \div 6) + 1) \o Char(AsciiLower, (i % 6) + 1)
Fait(i) == "fait" \o Char(AsciiLower, (i \div 6) + 1) \o Char(AsciiLower, (i % 6) + 1)

RECURSIVE Join(_, _, _, _)
Join(Item(_), lo, hi, sep) ==
    IF lo > hi THEN ""
    ELSE IF lo = hi THEN Item(lo)
    ELSE LET mid == (lo + hi) \div 2
         IN  Join(Item, lo, mid, sep) \o sep \o Join(Item, mid + 1, hi, sep)

Mots(lo, hi) == Join(Mot, lo, hi, " ")
ClaimOf(i) == "Le " \o Mot(i) \o " cause le " \o Fait(i) \o " ici"
ClaimBack(i) == "Le " \o Fait(i) \o " cause le " \o Mot(i) \o " ici"

\* 33 words in both agents with 3 or 4 occurrences: more than 30 candidates.
ManyConcepts ==
    Mapping(<<Mots(0, 32) \o " " \o Mots(0, 32) \o " " \o Mot(32), Mots(0, 32)>>)

\* 12 words twice in one agent only, next to two consensus words.
ManyUnique ==
    Mapping(<<"miel miel miel repos repos repos " \o Mots(0, 11) \o " " \o Mots(0, 11),
              "miel repos">>)

\* More than 20 distinct words in one agent: most_common(20) cuts.
ManyWords == Mapping(<<Mots(0, 21) \o " " \o Mots(0, 21), "">>)

\* 21 claims per agent, pairwise similar across the first two agents.
ManyClaims ==
    Mapping(<<Join(ClaimOf, 0, 20, ". "), Join(ClaimBack, 0, 20, ". "),
              Join(ClaimOf, 16, 19, ". ")>>)

\* Four agents, every pair sharing two words of its own: 12 insights.
ManyInsights ==
    Mapping(<<Mots(0, 5) \o " " \o Mots(0, 5),
              Mots(0, 1) \o " " \o Mots(6, 9) \o " " \o Mots(0, 1) \o " " \o Mots(6, 9),
              Mots(2, 3) \o " " \o Mots(6, 7) \o " " \o Mots(10, 11) \o " "
                  \o Mots(2, 3) \o " " \o Mots(6, 7) \o " " \o Mots(10, 11),
              Mots(4, 5) \o " " \o Mots(8, 11) \o " " \o Mots(4, 5) \o " " \o Mots(8, 11)>>)

\* Six agents: one word twice in three of them, another in two of them.
SharedByThree ==
    Mapping(<<Mots(0, 1) \o " " \o Mots(0, 1) \o " " \o Mot(1),
              Mots(0, 1) \o " " \o Mots(0, 1),
              Mot(0) \o " " \o Mot(0), "", "", "">>)

\* Consensus concepts that hold keywords of one, of two and of no category.
Thematic ==
    Mapping(<<"infrastructure effetlien liens miel écosystème "
                  \o "infrastructure effetlien liens miel écosystème",
              "infrastructure effetlien liens miel écosystème">>)

\* 25 consensus concepts and 12 supported claims at once.
FullConsensus ==
    Mapping(<<Join(ClaimOf, 0, 11, ". ") \o ". " \o Join(ClaimOf, 0, 11, ". "),
              Join(ClaimBack, 0, 11, ". ")>>)

LargeInputs ==
    {ManyConcepts, ManyUnique, ManyWords, ManyClaims, ManyInsights, SharedByThree,
     Thematic, FullConsensus}

Inputs == BankInputs \cup LargeInputs

\* similarity_threshold: presets of the app (0.4, 0.5 = the default) and 1.0
Thresholds == {Frac(2, 5), Frac(1, 2), Frac(1, 1)}

-----------------------------------------------------------------------------
(* Tables of the text primitives on the texts of the inputs (each value is *)
(* what the primitive computes; the tables only avoid recomputing it).     *)

\* The texts the scoring methods are called with
OneSentence == S1 \o " et " \o S4
BlankLine == "Le miel aide la toux\n\net calme la gorge. " \o S4
TwoParagraphs == S1 \o "\n\n" \o S4
ShortPieces == "Oui. Non. Si. Bon! Quoi? Oui. Non. Si. Bon! Quoi? Oui. Non."
Negated ==
    "Le miel n'est pas un remède pour cette toux. "
        \o "Le repos reste toujours plus utile, jamais nuisible aucunement."

NoWord == "12 34 56 78 90, 12 34 56 78 90; 12 34 56 78 90: le 12 et la 34."
OneWord == "miel miel miel miel miel miel miel miel miel miel miel"
TwoWords == "Le miel et la toux, le miel et la toux: 12 34 56 78 90."
FourWords == "Le miel aide la toux et la gorge. Le miel aide la toux et la gorge."
Uneven == "Le miel, le miel, la toux et la gorge; 12 34 56 78 90: 12 34 56."

ScoreTexts ==
    {"", "court", S1, OneSentence, BlankLine, TwoParagraphs, ShortPieces, Negated,
     TextA, TextB, TextD, NoWord, OneWord, TwoWords, FourWords, Uneven}

\* The texts split_sentences and extract_claims are called with directly
Indented == "   Le miel aide la toux"
LongSentence == Join(Mot, 0, 99, " ") \o ". " \o S1 \o "? " \o S2
IndentedClaim ==
    "Le repos est essentiel pour guérir vite et bien dormir. "
        \o "Le miel calme la gorge de tous\n\n  Le miel aide la toux"

SentenceTexts == {"", S1, Indented, LongSentence, IndentedClaim, TextA, TextB, TextD}

\* The texts a user of the application types into a text area: one shorter
\* than every minimum length, one of 135 characters
LongText == FourWords \o " " \o FourWords
AppTexts == {"court", LongText}

\* NordiqueLMCApp.load_example: the contents of the three records
ExampleTexts ==
    <<"Pour la toux, boire du thé chaud avec du miel aide beaucoup. Le repos est essentiel.",
      "Le miel et le citron dans de l'eau chaude calment la toux. Dormez bien.",
      "Astuce: miel + citron. L'hydratation est clé. Reposez-vous pour guérir.">>

\* The texts the calculator of the application scores
ScoredTexts == ScoreTexts \cup AppTexts

\* The claims claims_similarity is called with directly
ClaimTexts ==
    {"", "a b c", "Le miel", "miel aide", "Miel AIDE la toux", "aide miel",
     "la toux du 12", "miel miel toux", "toux_1 miel", "TOUX: miel; aide", "thé 1234"}

TextsInUse == UNION {{m[i].content : i \in 1..Len(m)} : m \in Inputs} \cup ScoreTexts
                  \cup AppTexts \cup Range(ExampleTexts)
ConceptWordsOf == [t \in TextsInUse |-> ConceptWords(t)]
ClaimsOf == [t \in TextsInUse |-> extract_claims(t)]
ClaimsInUse == UNION {Range(ClaimsOf[t]) : t \in TextsInUse} \cup ClaimTexts
ClaimWordsOf == [c \in ClaimsInUse |-> ClaimWords(c)]
EntropyWordsOf == [t \in ScoredTexts |-> EntropyWords(t)]
SplitOf == [t \in SentenceTexts |-> split_sentences(t)]
ExtractedOf == [t \in SentenceTexts |-> extract_claims(t)]
SentencesOf == [t \in ScoredTexts |-> CoherenceSentences(t)]
NegationsOf == [t \in ScoredTexts |-> CountNegations(lower(t), 1)]

\* Every text and every claim of a run is a text or a claim of the inputs.
WordsOfText(content) == ConceptWordsOf[content]
ClaimsOfText(content) == ClaimsOf[content]
WordsOfClaim(claim) == ClaimWordsOf[claim]
SentencesOfText(text) == SentencesOf[text]
EntropyWordsOfText(text) == EntropyWordsOf[text]
NegationsOfText(text) == NegationsOf[text]

\* Mutant of Jaccard: the intersection is divided by the size of the first set.
Jaccard_OverFirst(words1, words2) ==
    IF words1 = {} \/ words2 = {} THEN Frac(0, 1)
    ELSE Frac(Cardinality(words1 \cap words2), Cardinality(words1))

\* LMCCalculator.claims_similarity, as the fraction intersection / union
Jaccard(words1, words2) ==
    IF words1 = {} \/ words2 = {} THEN Frac(0, 1)
    ELSE LET intersection == Cardinality(words1 \cap words2)
             union == Cardinality(words1 \cup words2)
         IN  IF union > 0 THEN Frac(intersection, union) ELSE Frac(0, 1)

claims_similarity(claim1, claim2) ==
    IF claim1 = "" \/ claim2 = "" THEN Frac(0, 1)
    ELSE Jaccard(WordsOfClaim(claim1), WordsOfClaim(claim2))

-----------------------------------------------------------------------------
(* Python containers.                                                      *)

\* list.sort(key=..., reverse=True): stable, by descending key.  Geq(a, b) is
\* key(a) >= key(b); an element goes after the elements that are not below it.
RECURSIVE SortDesc(_, _)
SortDesc(Geq(_, _), seq) ==
    IF seq = <<>> THEN <<>>
    ELSE LET n == Len(seq)
             sorted == SortDesc(Geq, SubSeq(seq, 1, n - 1))
             x == seq[n]
             k == Cardinality({i \in 1..Len(sorted) : Geq(sorted[i], x)})
         IN  SubSeq(sorted, 1, k) \o <<x>> \o SubSeq(sorted, k + 1, Len(sorted))

\* Counter(words): the distinct words in order of first occurrence, with counts.
Counter(words) ==
    LET firsts == SelectSeq([i \in 1..Len(words) |-> i],
                            LAMBDA i : \A j \in 1..(i - 1) : words[j] # words[i])
    IN  [k \in 1..Len(firsts) |->
            [word |-> words[firsts[k]],
             count |-> Cardinality({j \in 1..Len(words) : words[j] = words[firsts[k]]})]]

CountGeq(a, b) == a.count >= b.count

\* Counter.most_common(n)
most_common(counter, n) == Take(SortDesc(CountGeq, counter), n)

\* counter[word] (0 for a missing key)
CountOf(counter, word) ==
    LET hits == {k \in 1..Len(counter) : counter[k].word = word}
    IN  IF hits = {} THEN 0 ELSE counter[CHOOSE k \in hits : TRUE].count

RECURSIVE Concat(_, _, _)
Concat(Item(_), lo, hi) ==
    IF lo > hi THEN <<>> ELSE Item(lo) \o Concat(Item, lo + 1, hi)

-----------------------------------------------------------------------------
(* ConsensusAnalyzer.                                                      *)

\* Mutant of TooFew: the early return taken for an empty mapping only.
TooFew_OnlyEmpty(resp) == Len(resp) < 1

\* The test of the early return of analyze_responses: len(responses) < 2
TooFew(resp) == Len(resp) < 2

EmptyResult ==
    [consensus |-> [concepts |-> <<>>, claims |-> <<>>, confidence |-> Frac(0, 1)],
     divergences |-> <<>>,
     insights |-> <<>>,
     emergent_insights |-> <<>>]

\* ConsensusAnalyzer._extract_all_concepts: the dict all_words in insertion
\* order, one entry [word, total, ais] per key.
\* The pairs (word, agent) in the order the two loops visit them.
WordOccurrences(resp) ==
    LET Tagged(words, name) == [k \in 1..Len(words) |-> [word |-> words[k], ai |-> name]]
        Occ(i) == Tagged(WordsOfText(resp[i].content), resp[i].name)
    IN  Concat(Occ, 1, Len(resp))

\* all_words after the loops over occ: 'total' += 1 and 'ais'.add(ai_name)
GroupWords(occ) ==
    LET firsts == SelectSeq([i \in 1..Len(occ) |-> i],
                            LAMBDA i : \A j \in 1..(i - 1) : occ[j].word # occ[i].word)
    IN  [k \in 1..Len(firsts) |->
            LET w == occ[firsts[k]].word
                at == {j \in 1..Len(occ) : occ[j].word = w}
            IN  [word |-> w, total |-> Cardinality(at), ais |-> {occ[j].ai : j \in at}]]

extract_all_concepts(resp) == GroupWords(WordOccurrences(resp))

TotalGeq(a, b) == a.total >= b.total

ConceptCap == 30

\* Mutant of find_consensus_concepts: a strict majority (>) instead of >=.
find_consensus_concepts_Strict(concepts, resp) ==
    LET consensus ==
            SelectSeq(concepts,
                      LAMBDA d : 2 * Cardinality(d.ais) > Len(resp) /\ d.total >= 3)
        sorted == SortDesc(TotalGeq, consensus)
        top == Take(sorted, ConceptCap)
    IN  [k \in 1..Len(top) |-> top[k].word]

\* ConsensusAnalyzer._find_consensus_concepts (len(data['ais']) >= len(responses) * 0.5)
find_consensus_concepts(concepts, resp) ==
    LET consensus ==
            SelectSeq(concepts,
                      LAMBDA d : 2 * Cardinality(d.ais) >= Len(resp) /\ d.total >= 3)
        sorted == SortDesc(TotalGeq, consensus)
        top == Take(sorted, ConceptCap)
    IN  [k \in 1..Len(top) |-> top[k].word]

\* ConsensusAnalyzer._extract_all_claims: per agent, in the order of the mapping
extract_all_claims(resp) == [i \in 1..Len(resp) |-> ClaimsOfText(resp[i].content)]

\* The (ai2, claim2) pairs the inner loops of _find_consensus_claims visit for
\* the outer index i, in order.
LaterClaims(resp, claims, i) ==
    LET Of(j) == [k \in 1..Len(claims[j]) |-> [ai |-> resp[j].name, claim |-> claims[j][k]]]
    IN  Concat(Of, i + 1, Len(resp))

\* Mutant of ScanLater: a supporter's claim is not added to `processed`.
RECURSIVE ScanLater_NoConsume(_, _, _, _, _)
ScanLater_NoConsume(later, k, claim1, threshold, acc) ==
    IF k > Len(later) THEN acc
    ELSE LET ai2 == later[k].ai
             claim2 == later[k].claim
         IN  IF claim2 \in acc.processed
             THEN ScanLater_NoConsume(later, k + 1, claim1, threshold, acc)
             ELSE IF FracGeq(claims_similarity(claim1, claim2), threshold)
             THEN ScanLater_NoConsume(later, k + 1, claim1, threshold,
                                      [supporting_ais |-> Append(acc.supporting_ais, ai2),
                                       similar_claims |-> Append(acc.similar_claims, claim2),
                                       processed |-> acc.processed])
             ELSE ScanLater_NoConsume(later, k + 1, claim1, threshold, acc)

\* The inner loops from the k-th visited pair on; acc holds supporting_ais,
\* similar_claims and processed.
RECURSIVE ScanLater(_, _, _, _, _)
ScanLater(later, k, claim1, threshold, acc) ==
    IF k > Len(later) THEN acc
    ELSE LET ai2 == later[k].ai
             claim2 == later[k].claim
         IN  IF claim2 \in acc.processed
             THEN ScanLater(later, k + 1, claim1, threshold, acc)
             ELSE IF FracGeq(claims_similarity(claim1, claim2), threshold)
             THEN ScanLater(later, k + 1, claim1, threshold,
                            [supporting_ais |-> Append(acc.supporting_ais, ai2),
                             similar_claims |-> Append(acc.similar_claims, claim2),
                             processed |-> acc.processed \cup {claim2}])
             ELSE ScanLater(later, k + 1, claim1, threshold, acc)

\* One pass of the body of `for claim1 in all_claims[ai1]` that is not skipped:
\* the supporters gathered for the seed and `processed` after the scan.
GatherSupport(resp, claims, i, claim1, done, threshold) ==
    ScanLater(LaterClaims(resp, claims, i), 1, claim1, threshold,
              [supporting_ais |-> <<resp[i].name>>,
               similar_claims |-> <<claim1>>,
               processed |-> done])

\* Mutant of ClaimFor: a seed without any supporter is kept as well.
ClaimFor_Unsupported(claim1, supporting_ais, resp) ==
    IF Len(supporting_ais) >= 1
    THEN <<[claim |-> claim1,
            support |-> Len(supporting_ais),
            ais |-> supporting_ais,
            confidence |-> Frac(Len(supporting_ais), Len(resp))]>>
    ELSE <<>>

\* The Claim appended for a seed with its supporters (none below 2 supporters).
ClaimFor(claim1, supporting_ais, resp) ==
    IF Len(supporting_ais) >= 2
    THEN <<[claim |-> claim1,
            support |-> Len(supporting_ais),
            ais |-> supporting_ais,
            confidence |-> Frac(Len(supporting_ais), Len(resp))]>>
    ELSE <<>>

\* `processed` at the end of a seed's pass: processed.add(claim1)
ProcessedAfter(gathered, claim1) == gathered \cup {claim1}

\* The position of the outer loops after (i, k): the next claim of agent i, or
\* the first claim of the next agent that has one, or (Len(claims) + 1, 1).
NextSeed(claims, i, k) ==
    IF i <= Len(claims) /\ k < Len(claims[i]) THEN <<i, k + 1>>
    ELSE LET rest == {j \in (i + 1)..Len(claims) : Len(claims[j]) > 0}
         IN  IF rest = {} THEN <<Len(claims) + 1, 1>>
             ELSE <<CHOOSE j \in rest : \A m \in rest : j <= m, 1>>

SupportGeq(a, b) == a.support >= b.support

ClaimCap == 15

\* Mutant of top_claims: the sorted list is returned whole.
top_claims_Uncut(found) == SortDesc(SupportGeq, found)

\* The tail of _find_consensus_claims: sort by support, keep the top 15.
top_claims(found) == Take(SortDesc(SupportGeq, found), ClaimCap)

MostCommonCap == 20
DivergenceCap == 10

\* Mutant of unique_concepts: a word that occurs once counts as well.
unique_concepts_AnyCount(content, consensus) ==
    LET IsUnique(e) == e.word \notin Range(consensus) /\ e.count >= 1
        WordsIn(kept) == [k \in 1..Len(kept) |-> kept[k].word]
    IN  WordsIn(SelectSeq(most_common(Counter(WordsOfText(content)), MostCommonCap),
                          IsUnique))

\* unique_concepts of one agent: the loop over word_freq.most_common(20)
unique_concepts(content, consensus) ==
    LET IsUnique(e) == e.word \notin Range(consensus) /\ e.count >= 2
        WordsIn(kept) == [k \in 1..Len(kept) |-> kept[k].word]
    IN  WordsIn(SelectSeq(most_common(Counter(WordsOfText(content)), MostCommonCap),
                          IsUnique))

\* The Divergence appended for an agent with its unique concepts, or none.
DivergenceFor(name, unique, consensus) ==
    IF unique # <<>>
    THEN <<[ai |-> name,
            concepts |-> Take(unique, DivergenceCap),
            score |-> Frac(Len(unique), Max2(Len(consensus), 1))]>>
    ELSE <<>>

\* The body of the loop of _find_divergences for one agent.
DivergenceOf(name, content, consensus) ==
    DivergenceFor(name, unique_concepts(content, consensus), consensus)

ScoreGeq(a, b) == FracGeq(a.score, b.score)

\* ConsensusAnalyzer._find_divergences
find_divergences(resp, consensus) ==
    LET Of(i) == DivergenceOf(resp[i].name, resp[i].content, consensus)
    IN  SortDesc(ScoreGeq, Concat(Of, 1, Len(resp)))

\* The orders in which a Python set can be iterated.
RECURSIVE Orders(_)
Orders(S) ==
    IF S = {} THEN {<<>>}
    ELSE UNION {{<<x>> \o rest : rest \in Orders(S \ {x})} : x \in S}

\* The pairs (i, j), i < j, in the order of the two loops over ai_names.
AgentPairs(n) ==
    LET Row(i) == [d \in 1..(n - i) |-> <<i, i + d>>]
    IN  Concat(Row, 1, n)

\* Mutant of InsightOf: half the number of agents is rounded up, so a concept
\* of 2 agents out of 3 counts as rare.
InsightOf_HalfRoundedUp(resp, ai_concepts, i, j, concept) ==
    LET freq1 == CountOf(ai_concepts[i], concept)
        freq2 == CountOf(ai_concepts[j], concept)
        total_freq1 ==
            Cardinality({a \in 1..Len(resp) : CountOf(ai_concepts[a], concept) > 0})
    IN  IF total_freq1 <= (Len(resp) + 1) \div 2 /\ freq1 >= 2 /\ freq2 >= 2
        THEN <<[concept1 |-> concept,
                concept2 |-> concept,
                ai1 |-> resp[i].name,
                ai2 |-> resp[j].name,
                similarity |-> Frac(Min2(freq1, freq2), Max2(freq1, freq2)),
                rarity1 |-> Frac(1, total_freq1),
                rarity2 |-> Frac(1, total_freq1)]>>
        ELSE <<>>

\* The insight _find_emergent_insights appends for a common concept of the
\* agents i and j, or none.
InsightOf(resp, ai_concepts, i, j, concept) ==
    LET freq1 == CountOf(ai_concepts[i], concept)
        freq2 == CountOf(ai_concepts[j], concept)
        total_freq1 ==
            Cardinality({a \in 1..Len(resp) : CountOf(ai_concepts[a], concept) > 0})
    IN  IF 2 * total_freq1 <= Len(resp) /\ freq1 >= 2 /\ freq2 >= 2
        THEN <<[concept1 |-> concept,
                concept2 |-> concept,
                ai1 |-> resp[i].name,
                ai2 |-> resp[j].name,
                similarity |-> Frac(Min2(freq1, freq2), Max2(freq1, freq2)),
                rarity1 |-> Frac(1, total_freq1),
                rarity2 |-> Frac(1, total_freq1)]>>
        ELSE <<>>

\* The lists `insights` can hold before the sort: the pairs in order, and for
\* each pair the set `common` iterated in any order (a set of str has no
\* order fixed by the program).
RECURSIVE InsightLists(_, _, _, _)
InsightLists(resp, ai_concepts, pairs, k) ==
    IF k > Len(pairs) THEN {<<>>}
    ELSE LET i == pairs[k][1]
             j == pairs[k][2]
             Keys(c) == {c[m].word : m \in 1..Len(c)}
             common == Keys(ai_concepts[i]) \cap Keys(ai_concepts[j])
             emitting == {c \in common : InsightOf(resp, ai_concepts, i, j, c) # <<>>}
             Emit(order) ==
                 LET One(m) == InsightOf(resp, ai_concepts, i, j, order[m])
                 IN  Concat(One, 1, Len(order))
         IN  {Emit(order) \o rest :
                 order \in Orders(emitting),
                 rest \in InsightLists(resp, ai_concepts, pairs, k + 1)}

RarityGeq(a, b) == FracGeq(a.rarity1, b.rarity1)

InsightCap == 10

\* Mutant of top_insights: the list is cut without being sorted.
top_insights_Unsorted(found) == Take(found, InsightCap)

\* The tail of _find_emergent_insights: sort by rarity, keep the top 10.
top_insights(found) == Take(SortDesc(RarityGeq, found), InsightCap)

\* The outcomes of ConsensusAnalyzer._find_emergent_insights
find_emergent_insights(resp) ==
    LET ai_concepts == [i \in 1..Len(resp) |-> Counter(WordsOfText(resp[i].content))]
    IN  {top_insights(found) :
            found \in InsightLists(resp, ai_concepts, AgentPairs(Len(resp)), 1)}

Categories == <<"structure", "processus", "impact", "relation">>

keywords ==
    [structure |-> <<"système", "architecture", "organisation", "structure", "modèle",
                     "composant">>,
     processus |-> <<"processus", "méthode", "approche", "mécanisme", "fonctionnement",
                     "évolution">>,
     impact |-> <<"effet", "impact", "conséquence", "résultat", "influence", "changement">>,
     relation |-> <<"relation", "lien", "connexion", "interaction", "corrélation",
                    "dépendance">>]

\* any(kw in concept for kw in kws)
MatchesCategory(concept, category) ==
    \E m \in 1..Len(keywords[category]) : Contains(concept, keywords[category][m])

\* Mutant of FirstCategory: the last matching category instead of the first.
FirstCategory_Last(concept) ==
    LET hits == {m \in 1..Len(Categories) : MatchesCategory(concept, Categories[m])}
    IN  IF hits = {} THEN None
        ELSE Categories[CHOOSE m \in hits : \A q \in hits : q <= m]

\* The category the loop `for category, kws in keywords.items()` stops at
\* (break), or None
FirstCategory(concept) ==
    LET hits == {m \in 1..Len(Categories) : MatchesCategory(concept, Categories[m])}
    IN  IF hits = {} THEN None
        ELSE Categories[CHOOSE m \in hits : \A q \in hits : m <= q]

\* ConsensusAnalyzer._categorize_insights
categorize_insights(consensus) ==
    [category \in Range(Categories) |->
        SelectSeq(consensus, LAMBDA concept : FirstCategory(concept) = category)]

ConceptFull == 20
ClaimFull == 10
ConceptWeight == 6
ClaimWeight == 4

\* Mutant of calculate_consensus_confidence: the two part scores are not capped.
calculate_consensus_confidence_Uncapped(n_concepts, n_claims, n_ais) ==
    IF n_ais < 2 THEN Frac(0, 1)
    ELSE LET confidence ==
                 Frac(n_concepts * ConceptWeight * ClaimFull
                          + n_claims * ClaimWeight * ConceptFull,
                      ConceptFull * ClaimFull * (ConceptWeight + ClaimWeight))
         IN  IF FracGt(confidence, Frac(1, 1)) THEN Frac(1, 1) ELSE confidence

\* ConsensusAnalyzer._calculate_consensus_confidence, in exact arithmetic:
\* min(n_concepts / 20, 1) * 0.6 + min(n_claims / 10, 1) * 0.4, capped at 1
calculate_consensus_confidence(n_concepts, n_claims, n_ais) ==
    IF n_ais < 2 THEN Frac(0, 1)
    ELSE LET concept_score == Frac(Min2(n_concepts, ConceptFull), ConceptFull)
             claim_score == Frac(Min2(n_claims, ClaimFull), ClaimFull)
             confidence ==
                 Frac(concept_score.num * ConceptWeight * claim_score.den
                          + claim_score.num * ClaimWeight * concept_score.den,
                      concept_score.den * claim_score.den * (ConceptWeight + ClaimWeight))
         IN  IF FracGt(confidence, Frac(1, 1)) THEN Frac(1, 1) ELSE confidence

-----------------------------------------------------------------------------
(* analyze_responses as a state machine: one step per stage of the method, *)
(* and one step per seed of the clustering loop.                           *)

Init ==
    /\ responses \in Inputs
    /\ similarity_threshold \in Thresholds
    /\ pc = "start"
    /\ all_concepts = <<>>
    /\ consensus_concepts = <<>>
    /\ all_claims = <<>>
    /\ ai_idx = 1
    /\ claim_idx = 1
    /\ processed = {}
    /\ clusters = <<>>
    /\ seeds = <<>>
    /\ consensus_claims = <<>>
    /\ divergences = <<>>
    /\ emergent_insights = <<>>
    /\ insights = <<>>
    /\ result = None
    /\ calls = 1
    /\ epsilon = DefaultEpsilon
    /\ stopwords = StopWords
    /\ call = None
    /\ ret = None
    /\ NoApp

\* if len(responses) < 2: return {...}
ReturnEmpty ==
    /\ pc = "start"
    /\ TooFew(responses)
    /\ result' = EmptyResult
    /\ pc' = "done"
    /\ UNCHANGED <<responses, similarity_threshold, all_concepts, consensus_concepts,
                   all_claims, ai_idx, claim_idx, processed, clusters, seeds,
                   consensus_claims, divergences, emergent_insights, insights>>
    /\ UNCHANGED <<calls, lmc_vars, app_vars>>

ExtractAllConcepts ==
    /\ pc = "start"
    /\ ~TooFew(responses)
    /\ all_concepts' = extract_all_concepts(responses)
    /\ pc' = "consensus_concepts"
    /\ UNCHANGED <<responses, similarity_threshold, consensus_concepts, all_claims,
                   ai_idx, claim_idx, processed, clusters, seeds, consensus_claims,
                   divergences, emergent_insights, insights, result>>
    /\ UNCHANGED <<calls, lmc_vars, app_vars>>

FindConsensusConcepts ==
    /\ pc = "consensus_concepts"
    /\ consensus_concepts' = find_consensus_concepts(all_concepts, responses)
    /\ pc' = "claims"
    /\ UNCHANGED <<responses, similarity_threshold, all_concepts, all_claims, ai_idx,
                   claim_idx, processed, clusters, seeds, consensus_claims,
                   divergences, emergent_insights, insights, result>>
    /\ UNCHANGED <<calls, lmc_vars, app_vars>>

\* Mutant of ExtractAllClaims: `processed` is an attribute of the analyzer that
\* _find_consensus_claims does not empty on entry.
ExtractAllClaims_KeepProcessed ==
    /\ pc = "claims"
    /\ all_claims' = extract_all_claims(responses)
    /\ ai_idx' = NextSeed(all_claims', 1, 0)[1]
    /\ claim_idx' = NextSeed(all_claims', 1, 0)[2]
    /\ clusters' = <<>>
    /\ pc' = "cluster"
    /\ UNCHANGED <<responses, similarity_threshold, all_concepts, consensus_concepts,
                   processed, seeds, consensus_claims, divergences, emergent_insights,
                   insights, result>>
    /\ UNCHANGED <<calls, lmc_vars, app_vars>>

\* _extract_all_claims, and the entry of _find_consensus_claims
ExtractAllClaims ==
    /\ pc = "claims"
    /\ all_claims' = extract_all_claims(responses)
    /\ ai_idx' = NextSeed(all_claims', 1, 0)[1]
    /\ claim_idx' = NextSeed(all_claims', 1, 0)[2]
    /\ processed' = {}
    /\ clusters' = <<>>
    /\ pc' = "cluster"
    /\ UNCHANGED <<responses, similarity_threshold, all_concepts, consensus_concepts,
                   seeds, consensus_claims, divergences, emergent_insights, insights,
                   result>>
    /\ UNCHANGED <<calls, lmc_vars, app_vars>>

\* One pass of `for claim1 in all_claims[ai1]`
ClusterSeed ==
    /\ pc = "cluster"
    /\ ai_idx <= Len(responses)
    /\ LET claim1 == all_claims[ai_idx][claim_idx]
           Skip ==
               /\ UNCHANGED <<processed, clusters>>
               /\ seeds' = Append(seeds, [ai |-> ai_idx, claim |-> claim1,
                                          skipped |-> TRUE, before |-> processed,
                                          supporting_ais |-> <<>>,
                                          similar_claims |-> <<>>])
           Pass(got) ==
               /\ clusters' = clusters \o ClaimFor(claim1, got.supporting_ais, responses)
               /\ processed' = ProcessedAfter(got.processed, claim1)
               /\ seeds' = Append(seeds, [ai |-> ai_idx, claim |-> claim1,
                                          skipped |-> FALSE, before |-> processed,
                                          supporting_ais |-> got.supporting_ais,
                                          similar_claims |-> got.similar_claims])
       IN  IF claim1 \in processed
           THEN Skip
           ELSE Pass(GatherSupport(responses, all_claims, ai_idx, claim1, processed,
                                   similarity_threshold))
    /\ ai_idx' = NextSeed(all_claims, ai_idx, claim_idx)[1]
    /\ claim_idx' = NextSeed(all_claims, ai_idx, claim_idx)[2]
    /\ UNCHANGED <<responses, similarity_threshold, pc, all_concepts,
                   consensus_concepts, all_claims, consensus_claims, divergences,
                   emergent_insights, insights, result>>
    /\ UNCHANGED <<calls, lmc_vars, app_vars>>

\* The loops are over: sort, truncate, return from _find_consensus_claims
FinishConsensusClaims ==
    /\ pc = "cluster"
    /\ ai_idx > Len(responses)
    /\ consensus_claims' = top_claims(clusters)
    /\ pc' = "divergences"
    /\ UNCHANGED <<responses, similarity_threshold, all_concepts, consensus_concepts,
                   all_claims, ai_idx, claim_idx, processed, clusters, seeds,
                   divergences, emergent_insights, insights, result>>
    /\ UNCHANGED <<calls, lmc_vars, app_vars>>

FindDivergences ==
    /\ pc = "divergences"
    /\ divergences' = find_divergences(responses, consensus_concepts)
    /\ pc' = "emergent"
    /\ UNCHANGED <<responses, similarity_threshold, all_concepts, consensus_concepts,
                   all_claims, ai_idx, claim_idx, processed, clusters, seeds,
                   consensus_claims, emergent_insights, insights, result>>
    /\ UNCHANGED <<calls, lmc_vars, app_vars>>

FindEmergentInsights ==
    /\ pc = "emergent"
    /\ emergent_insights' \in find_emergent_insights(responses)
    /\ pc' = "categorize"
    /\ UNCHANGED <<responses, similarity_threshold, all_concepts, consensus_concepts,
                   all_claims, ai_idx, claim_idx, processed, clusters, seeds,
                   consensus_claims, divergences, insights, result>>
    /\ UNCHANGED <<calls, lmc_vars, app_vars>>

CategorizeInsights ==
    /\ pc = "categorize"
    /\ insights' = categorize_insights(consensus_concepts)
    /\ pc' = "return"
    /\ UNCHANGED <<responses, similarity_threshold, all_concepts, consensus_concepts,
                   all_claims, ai_idx, claim_idx, processed, clusters, seeds,
                   consensus_claims, divergences, emergent_insights, result>>
    /\ UNCHANGED <<calls, lmc_vars, app_vars>>

\* _calculate_consensus_confidence and the returned dict
Return ==
    /\ pc = "return"
    /\ result' =
           [consensus |->
                [concepts |-> consensus_concepts,
                 claims |-> consensus_claims,
                 confidence |->
                     calculate_consensus_confidence(Len(consensus_concepts),
                                                    Len(consensus_claims),
                                                    Len(responses))],
            divergences |-> divergences,
            insights |-> insights,
            emergent_insights |-> emergent_insights]
    /\ pc' = "done"
    /\ UNCHANGED <<responses, similarity_threshold, all_concepts, consensus_concepts,
                   all_claims, ai_idx, claim_idx, processed, clusters, seeds,
                   consensus_claims, divergences, emergent_insights, insights>>
    /\ UNCHANGED <<calls, lmc_vars, app_vars>>

Next ==
    \/ ReturnEmpty
    \/ ExtractAllConcepts
    \/ FindConsensusConcepts
    \/ ExtractAllClaims
    \/ ClusterSeed
    \/ FinishConsensusClaims
    \/ FindDivergences
    \/ FindEmergentInsights
    \/ CategorizeInsights
    \/ Return

Spec == Init /\ [][Next]_vars

-----------------------------------------------------------------------------
(* Several calls of analyze_responses on one analyzer.  A call's locals    *)
(* are unbound when it begins: they are left holding what the call before  *)
(* put in them, and a step that read one before assigning it would show.   *)

MaxCalls == 2

\* The mappings the calls are given
CallInputs ==
    {Mapping(<<>>), Mapping(<<TextA>>), Mapping(<<TextA, TextB>>),
     Mapping(<<TextB, TextD>>), Mapping(<<TextD, TextA, TextB>>),
     Mapping(<<TextC, TextC, TextA>>)}

InitCalls == Init /\ responses \in CallInputs

\* analyzer.analyze_responses(responses) once more, the call before having returned
NewCall ==
    /\ pc = "done"
    /\ calls < MaxCalls
    /\ responses' \in CallInputs
    /\ calls' = calls + 1
    /\ pc' = "start"
    /\ result' = None
    /\ seeds' = <<>>
    /\ UNCHANGED <<similarity_threshold, all_concepts, consensus_concepts, all_claims,
                   ai_idx, claim_idx, processed, clusters, consensus_claims,
                   divergences, emergent_insights, insights, lmc_vars, app_vars>>

NextCalls ==
    \/ Next
    \/ NewCall

SpecCalls == InitCalls /\ [][NextCalls]_vars

\* The loops of _find_consensus_claims from the seed at `seed` on, `done` being
\* the set `processed` and `found` the list `consensus_claims` so far
RECURSIVE ClusterFrom(_, _, _, _, _, _)
ClusterFrom(resp, claims, seed, done, found, threshold) ==
    IF seed[1] > Len(resp) THEN found
    ELSE LET claim1 == claims[seed[1]][seed[2]]
             After(got) ==
                 ClusterFrom(resp, claims, NextSeed(claims, seed[1], seed[2]),
                             ProcessedAfter(got.processed, claim1),
                             found \o ClaimFor(claim1, got.supporting_ais, resp),
                             threshold)
         IN  IF claim1 \in done
             THEN ClusterFrom(resp, claims, NextSeed(claims, seed[1], seed[2]), done,
                              found, threshold)
             ELSE After(GatherSupport(resp, claims, seed[1], claim1, done, threshold))

\* ConsensusAnalyzer._find_consensus_claims, begun with `processed = set()`
find_consensus_claims(resp, claims, threshold) ==
    top_claims(ClusterFrom(resp, claims, NextSeed(claims, 1, 0), {}, <<>>, threshold))

\* The dict analyze_responses returns
ResultOf(resp, concepts, claims, emergent) ==
    [consensus |->
         [concepts |-> concepts,
          claims |-> claims,
          confidence |->
              calculate_consensus_confidence(Len(concepts), Len(claims), Len(resp))],
     divergences |-> find_divergences(resp, concepts),
     insights |-> categorize_insights(concepts),
     emergent_insights |-> emergent]

\* What analyze_responses can return on an analyzer that has served no call
analyze_responses(resp, threshold) ==
    LET Results(concepts, claims) ==
            {ResultOf(resp, concepts, claims, emergent) :
                emergent \in find_emergent_insights(resp)}
    IN  IF TooFew(resp) THEN {EmptyResult}
        ELSE Results(find_consensus_concepts(extract_all_concepts(resp), resp),
                     find_consensus_claims(resp, extract_all_claims(resp), threshold))

-----------------------------------------------------------------------------
(* LMCCalculator called directly: the text similarity of the library       *)
(* module and of the copy of the class embedded in app.py.                 *)

\* One pass of `for j, c2 in enumerate(s2)`: current_row grows by one entry
RECURSIVE EditRow(_, _, _, _)
EditRow(previous_row, current_row, c1, s2) ==
    IF Len(current_row) > Len(s2) THEN current_row
    ELSE LET k == Len(current_row)
             insertions == previous_row[k + 1] + 1
             deletions == current_row[k] + 1
             substitutions == previous_row[k] + (IF c1 # Char(s2, k) THEN 1 ELSE 0)
         IN  EditRow(previous_row,
                     Append(current_row, Min2(insertions, Min2(deletions, substitutions))),
                     c1, s2)

\* The passes of `for i, c1 in enumerate(s1)` from the i-th character on
RECURSIVE EditRows(_, _, _, _)
EditRows(s1, s2, i, previous_row) ==
    IF i > Len(s1) THEN previous_row[Len(previous_row)]
    ELSE EditRows(s1, s2, i + 1, EditRow(previous_row, <<i>>, Char(s1, i), s2))

\* LMCCalculator._edit_distance
RECURSIVE edit_distance(_, _)
edit_distance(s1, s2) ==
    IF Len(s1) < Len(s2) THEN edit_distance(s2, s1)
    ELSE IF Len(s2) = 0 THEN Len(s1)
    ELSE EditRows(s1, s2, 1, [j \in 1..(Len(s2) + 1) |-> j - 1])

\* The two returns after the first guard, `longer` and `shorter` being chosen
SimilarityOf(longer, shorter) ==
    IF Len(longer) = 0 THEN Frac(1, 1)
    ELSE Frac(Len(longer) - edit_distance(lower(longer), lower(shorter)), Len(longer))

\* LMCCalculator.calculate_similarity (lmc_calculator.py)
calculate_similarity(text1, text2) ==
    IF text1 = "" \/ text2 = "" THEN Frac(0, 1)
    ELSE SimilarityOf(IF Len(text1) > Len(text2) THEN text1 ELSE text2,
                      IF Len(text1) > Len(text2) THEN text2 ELSE text1)

\* str.split(): the maximal runs of non-whitespace characters from position p on
RECURSIVE SplitWordsFrom(_, _)
SplitWordsFrom(s, p) ==
    LET starts == {q \in p..Len(s) : Char(s, q) \notin SpaceClass}
    IN  IF starts = {} THEN <<>>
        ELSE LET q == CHOOSE x \in starts : \A y \in starts : x <= y
                 stops == {k \in q..Len(s) : Char(s, k) \in SpaceClass}
                 e == IF stops = {} THEN Len(s)
                      ELSE (CHOOSE k \in stops : \A j \in stops : k <= j) - 1
             IN  <<SubSeq(s, q, e)>> \o SplitWordsFrom(s, e + 1)

str_split(s) == SplitWordsFrom(s, 1)

\* The returns of the app.py copy after the first guard
AppSimilarityOf(longer, shorter) ==
    IF Len(longer) = 0 THEN Frac(1, 1)
    ELSE LET w1 == Range(str_split(lower(longer)))
             w2 == Range(str_split(lower(shorter)))
             intersection == Cardinality(w1 \cap w2)
             union == Cardinality(w1 \cup w2)
         IN  IF union > 0 THEN Frac(intersection, union) ELSE Frac(0, 1)

\* LMCCalculator.calculate_similarity (the copy in app.py)
app_calculate_similarity(text1, text2) ==
    IF text1 = "" \/ text2 = "" THEN Frac(0, 1)
    ELSE AppSimilarityOf(IF Len(text1) > Len(text2) THEN text1 ELSE text2,
                         IF Len(text1) > Len(text2) THEN text2 ELSE text1)

\* The texts calculate_similarity is called with
SimilarityTexts ==
    {"", " ", "a", "A", "ab", "ba", "Ab", "a b", "b a", "a  b", "abc", "bcd", "chat",
     "Chats", "le chat", "chat le"}

\* The values of epsilon a calculator is built with
Epsilons == {Frac(0, 1), Frac(1, 1000), Frac(1, 10)}

\* The analyzer's variables, which a direct call of the calculator leaves alone
analyzer_vars ==
    <<responses, similarity_threshold, pc, all_concepts, consensus_concepts,
      all_claims, ai_idx, claim_idx, processed, clusters, seeds, consensus_claims,
      divergences, emergent_insights, insights, result, calls>>

\* LMCCalculator(epsilon), no analyzer at work
InitLMC ==
    /\ responses = <<>>
    /\ similarity_threshold = Frac(1, 2)
    /\ pc = "idle"
    /\ all_concepts = <<>>
    /\ consensus_concepts = <<>>
    /\ all_claims = <<>>
    /\ ai_idx = 1
    /\ claim_idx = 1
    /\ processed = {}
    /\ clusters = <<>>
    /\ seeds = <<>>
    /\ consensus_claims = <<>>
    /\ divergences = <<>>
    /\ emergent_insights = <<>>
    /\ insights = <<>>
    /\ result = None
    /\ calls = 0
    /\ epsilon \in Epsilons
    /\ stopwords = StopWords
    /\ call = [method |-> "__init__", copy |-> "lmc_calculator.py", args |-> <<>>]
    /\ ret = [value |-> None]
    /\ NoApp

CalculateSimilarity ==
    \E text1 \in SimilarityTexts, text2 \in SimilarityTexts :
        /\ call' = [method |-> "calculate_similarity", copy |-> "lmc_calculator.py",
                    args |-> <<text1, text2>>]
        /\ ret' = [value |-> calculate_similarity(text1, text2)]
        /\ UNCHANGED <<analyzer_vars, epsilon, stopwords, app_vars>>

AppCalculateSimilarity ==
    \E text1 \in SimilarityTexts, text2 \in SimilarityTexts :
        /\ call' = [method |-> "calculate_similarity", copy |-> "app.py",
                    args |-> <<text1, text2>>]
        /\ ret' = [value |-> app_calculate_similarity(text1, text2)]
        /\ UNCHANGED <<analyzer_vars, epsilon, stopwords, app_vars>>

\* The weighted sum of calculate_coherence, in exact arithmetic:
\* repetition * 0.25 + length * 0.35 + content * 0.30 + negation * 0.10
WeightedCoherence(words, n_sentences, n_negations, stops) ==
    LET d == Max2(Len(words), 1)
        repetition_rate == Frac(d - Cardinality(Range(words)), d)
        length_coherence == FracMin(Frac(Len(words), 20 * n_sentences), Frac(1, 1))
        content_ratio == Frac(Cardinality({k \in 1..Len(words) : words[k] \notin stops}), d)
        negation_bonus == FracMin(Frac(n_negations, 10), Frac(1, 10))
    IN  FracAdd(FracAdd(FracMul(repetition_rate, Frac(25, 100)),
                        FracMul(length_coherence, Frac(35, 100))),
                FracAdd(FracMul(content_ratio, Frac(30, 100)),
                        FracMul(negation_bonus, Frac(10, 100))))

\* Mutant of calculate_coherence: 0.5 is returned only when no sentence is kept.
calculate_coherence_NoneOnly(text, stops) ==
    IF text = "" \/ Len(text) < 50 THEN Frac(0, 1)
    ELSE IF Len(SentencesOfText(text)) < 1 THEN Frac(1, 2)
    ELSE WeightedCoherence(WordsOfText(text), Len(SentencesOfText(text)),
                           NegationsOfText(text), stops)

\* LMCCalculator.calculate_coherence
calculate_coherence(text, stops) ==
    IF text = "" \/ Len(text) < 50 THEN Frac(0, 1)
    ELSE IF Len(SentencesOfText(text)) < 2 THEN Frac(1, 2)
    ELSE WeightedCoherence(WordsOfText(text), Len(SentencesOfText(text)),
                           NegationsOfText(text), stops)

\* math.log2(n) for n a power of two
RECURSIVE Log2(_)
Log2(n) == IF n <= 1 THEN 0 ELSE 1 + Log2(n \div 2)

IsPowerOfTwo(n) == n >= 1 /\ \E k \in 0..n : 2 ^ k = n

\* The word counts for which the loop of calculate_entropy is exact in floats
\* and in fractions: the total and every count are powers of two
Dyadic(words) ==
    /\ words # <<>> => IsPowerOfTwo(Len(words))
    /\ \A w \in Range(words) :
           IsPowerOfTwo(Cardinality({k \in 1..Len(words) : words[k] = w}))

\* entropy after the loop `for count in freq.values()`:
\* -sum (count / total) * log2(count / total), as a fraction of the total
RECURSIVE CountTimesLog(_, _)
CountTimesLog(words, seen) ==
    LET rest == Range(words) \ seen
    IN  IF rest = {} THEN 0
        ELSE LET w == CHOOSE x \in rest : TRUE
                 count == Cardinality({k \in 1..Len(words) : words[k] = w})
             IN  count * Log2(count) + CountTimesLog(words, seen \cup {w})

ShannonEntropy(words) ==
    Reduced(Len(words) * Log2(Len(words)) - CountTimesLog(words, {}), Len(words))

\* LMCCalculator.calculate_entropy
calculate_entropy(text) ==
    IF text = "" \/ Len(text) < 50 THEN Frac(0, 1)
    ELSE IF EntropyWordsOfText(text) = <<>> THEN Frac(0, 1)
    ELSE FracMin(FracMul(ShannonEntropy(EntropyWordsOfText(text)), Frac(1, 10)),
                 Frac(1, 1))

\* The texts whose entropy the model computes exactly
EntropyTexts == {t \in ScoreTexts : Dyadic(EntropyWordsOfText(t))}

\* score = C / (H + self.epsilon) and the returned dict, or the exception
\* float division raises on a zero divisor
ScoreOf(H, C, divisor) ==
    IF divisor.num = 0 THEN [raised |-> "ZeroDivisionError"]
    ELSE [value |-> [H |-> H, C |-> C,
                     score |-> Reduced(C.num * divisor.den, C.den * divisor.num)]]

LmcScore(H, C, eps) == ScoreOf(H, C, FracAdd(H, eps))

\* LMCCalculator.calculate_lmc_score
calculate_lmc_score(text, eps, stops) ==
    LmcScore(calculate_entropy(text), calculate_coherence(text, stops), eps)

CalculateEntropy ==
    \E text \in EntropyTexts :
        /\ call' = [method |-> "calculate_entropy", copy |-> "lmc_calculator.py",
                    args |-> <<text>>]
        /\ ret' = [value |-> calculate_entropy(text)]
        /\ UNCHANGED <<analyzer_vars, epsilon, stopwords, app_vars>>

CalculateLmcScore ==
    \E text \in EntropyTexts :
        /\ call' = [method |-> "calculate_lmc_score", copy |-> "lmc_calculator.py",
                    args |-> <<text>>]
        /\ ret' = calculate_lmc_score(text, epsilon, stopwords)
        /\ UNCHANGED <<analyzer_vars, epsilon, stopwords, app_vars>>

SplitSentences ==
    \E text \in SentenceTexts :
        /\ call' = [method |-> "split_sentences", copy |-> "lmc_calculator.py",
                    args |-> <<text>>]
        /\ ret' = [value |-> SplitOf[text]]
        /\ UNCHANGED <<analyzer_vars, epsilon, stopwords, app_vars>>

ExtractClaims ==
    \E text \in SentenceTexts :
        /\ call' = [method |-> "extract_claims", copy |-> "lmc_calculator.py",
                    args |-> <<text>>]
        /\ ret' = [value |-> ExtractedOf[text]]
        /\ UNCHANGED <<analyzer_vars, epsilon, stopwords, app_vars>>

CalculateCoherence ==
    \E text \in ScoreTexts :
        /\ call' = [method |-> "calculate_coherence", copy |-> "lmc_calculator.py",
                    args |-> <<text>>]
        /\ ret' = [value |-> calculate_coherence(text, stopwords)]
        /\ UNCHANGED <<analyzer_vars, epsilon, stopwords, app_vars>>

ClaimsSimilarity ==
    \E claim1 \in ClaimTexts, claim2 \in ClaimTexts :
        /\ call' = [method |-> "claims_similarity", copy |-> "lmc_calculator.py",
                    args |-> <<claim1, claim2>>]
        /\ ret' = [value |-> claims_similarity(claim1, claim2)]
        /\ UNCHANGED <<analyzer_vars, epsilon, stopwords, app_vars>>

NextLMC ==
    \/ CalculateSimilarity
    \/ AppCalculateSimilarity
    \/ ClaimsSimilarity
    \/ CalculateCoherence
    \/ CalculateEntropy
    \/ CalculateLmcScore
    \/ SplitSentences
    \/ ExtractClaims

SpecLMC == InitLMC /\ [][NextLMC]_vars

(***************************************************************************)
(* app.py: the Streamlit application. Every interaction of the user reruns *)
(* the script: NordiqueLMCApp.run renders the sidebar, then the input      *)
(* section. An action is one interaction together with the run it starts.  *)
(***************************************************************************)

\* The slots the model lets the user show; the widget of the sidebar goes
\* from MinAis to MaxAis.
MaxSlots == 4

\* The runs of the script the model follows a session for
MaxRuns == 6
MinAis == 2
MaxAis == 8
Slots == 0..(MaxSlots - 1)

\* key = f"ai_{i}"
SlotKeys == <<"ai_0", "ai_1", "ai_2", "ai_3", "ai_4", "ai_5", "ai_6", "ai_7">>
KeyOf(i) == SlotKeys[i + 1]

\* NordiqueLMCApp.__init__: self.default_ai_names
default_ai_names ==
    <<"Claude", "ChatGPT", "Gemini", "Perplexity", "Llama", "Mistral", "GPT-4", "Grok">>

\* LMCCalculator.__init__ of app.py: self.stopwords
AppStopWords ==
    StopWords \cup {"le", "la", "les", "un", "une", "des", "et", "ou", "mais", "car",
                    "ni", "or"}

\* NordiqueLMCApp.init_session_state: st.session_state.settings
DefaultSettings ==
    [epsilon |-> Frac(1, 10), similarity_threshold |-> Frac(9, 20), min_length |-> 100]
DefaultNumAis == 3

\* NordiqueLMCApp.__init__: self.presets
PresetNames == {"Standard", "Académique", "Créatif", "Strict"}
presets ==
    [p \in PresetNames |->
        CASE p = "Standard" ->
                 [epsilon |-> Frac(1, 10), similarity_threshold |-> Frac(9, 20),
                  min_length |-> 100]
          [] p = "Académique" ->
                 [epsilon |-> Frac(1, 20), similarity_threshold |-> Frac(1, 2),
                  min_length |-> 200]
          [] p = "Créatif" ->
                 [epsilon |-> Frac(1, 5), similarity_threshold |-> Frac(2, 5),
                  min_length |-> 100]
          [] p = "Strict" ->
                 [epsilon |-> Frac(1, 100), similarity_threshold |-> Frac(3, 5),
                  min_length |-> 150]]

\* The values the user moves the sliders of the sidebar to: the smallest
\* epsilon and the default one, two thresholds, two minimum lengths
SliderEpsilons == {Frac(1, 1000), Frac(1, 10)}
SliderThresholds == {Frac(9, 20), Frac(1, 1)}
SliderMinLengths == {100, 150}

\* The texts a text area holds
WidgetTexts == AppTexts \cup {""}

\* key in st.session_state.responses
HasKey(st, key) == \E k \in 1..Len(st) : st[k].key = key

\* st.session_state.responses[key] = rec: a dict keeps the place of a key it has
DictSet(st, rec) ==
    IF HasKey(st, rec.key)
    THEN [k \in 1..Len(st) |-> IF st[k].key = rec.key THEN rec ELSE st[k]]
    ELSE Append(st, rec)

\* ResponseData(name=ai_name, content=content, H=H, C=C, score=score) of slot i,
\* the name left at its default
ResponseOf(i, content, H, C, eps) ==
    [key |-> KeyOf(i), name |-> default_ai_names[i + 1], content |-> content,
     H |-> H, C |-> C, score |-> LmcScore(H, C, eps).value.score]
NewResponse(i, content, eps) ==
    ResponseOf(i, content, calculate_entropy(content),
               calculate_coherence(content, AppStopWords), eps)

\* render_input_section: the loop `for i in range(st.session_state.num_ais)`
\* from slot i on. For a key the dict holds, responses.get(key, {}) is a
\* ResponseData, which has no get: the line of the name widget raises
\* AttributeError and the run ends there, with what it stored so far.
RECURSIVE render_slots(_, _, _, _, _, _)
render_slots(i, n, st, cont, minlen, eps) ==
    IF i >= n THEN [responses |-> st, rendered |-> n]
    ELSE IF HasKey(st, KeyOf(i)) THEN [responses |-> st, rendered |-> i]
    ELSE render_slots(i + 1, n,
                      IF Len(cont[i]) >= minlen
                      THEN DictSet(st, NewResponse(i, cont[i], eps))
                      ELSE st,
                      cont, minlen, eps)

\* The slots a run renders when the dict is st and n slots are shown
Rendering(st, n) ==
    CHOOSE i \in 0..n : /\ i = n \/ HasKey(st, KeyOf(i))
                        /\ \A j \in 0..(i - 1) : ~HasKey(st, KeyOf(j))

\* The texts of the text areas in a run: a text area the last run rendered
\* holds what the user left in it; one the last run did not render holds that
\* or, its state dropped, the value= of a slot without record: ''.
Widgets(typed, st, n) ==
    {c \in [Slots -> WidgetTexts] :
        \A i \in Slots :
            \/ c[i] = typed[i]
            \/ rendered <= i /\ i < Rendering(st, n) /\ c[i] = ""}

\* sum(1 for r in responses.values() if len(r.content) >= min_length)
ValidResponses(st, minlen) == SelectSeq(st, LAMBDA r : Len(r.content) >= minlen)

\* The mapping analyze_responses of the analyzer reads: keys and contents
ValidMapping(st, minlen) ==
    LET valid == ValidResponses(st, minlen)
    IN  [k \in 1..Len(valid) |-> [name |-> valid[k].key, content |-> valid[k].content]]

\* NordiqueLMCApp.load_example: ex
Example ==
    <<[key |-> "ai_0", name |-> "Claude", content |-> ExampleTexts[1],
       H |-> Frac(1, 5), C |-> Frac(4, 5), score |-> Frac(4, 1)],
      [key |-> "ai_1", name |-> "ChatGPT", content |-> ExampleTexts[2],
       H |-> Frac(3, 10), C |-> Frac(7, 10), score |-> Frac(23, 10)],
      [key |-> "ai_2", name |-> "Gemini", content |-> ExampleTexts[3],
       H |-> Frac(1, 4), C |-> Frac(3, 4), score |-> Frac(3, 1)]>>

\* The state a run of the script leaves
AfterRun(run, cont) ==
    /\ runs < MaxRuns
    /\ runs' = runs + 1
    /\ contents' = cont
    /\ stored' = run.responses
    /\ rendered' = run.rendered

\* run(): render_sidebar has set the settings to `settings` and num_ais to n,
\* the dict is st; render_input_section runs its loop
Run(st, n, typed, settings) ==
    \E cont \in Widgets(typed, st, n) :
        AfterRun(render_slots(0, n, st, cont, settings.min_length, settings.epsilon),
                 cont)

Settings ==
    [epsilon |-> epsilon, similarity_threshold |-> similarity_threshold,
     min_length |-> min_length]

SetSettings(settings) ==
    /\ epsilon' = settings.epsilon
    /\ similarity_threshold' = settings.similarity_threshold
    /\ min_length' = settings.min_length

analysis_vars ==
    <<all_concepts, consensus_concepts, all_claims, ai_idx, claim_idx, processed,
      clusters, seeds, consensus_claims, divergences, emergent_insights, insights,
      calls, stopwords, call, ret>>

\* The state after the first run of the script in a session
InitApp ==
    /\ responses = <<>>
    /\ epsilon = DefaultSettings.epsilon
    /\ similarity_threshold = DefaultSettings.similarity_threshold
    /\ min_length = DefaultSettings.min_length
    /\ pc = "rendered"
    /\ all_concepts = <<>>
    /\ consensus_concepts = <<>>
    /\ all_claims = <<>>
    /\ ai_idx = 1
    /\ claim_idx = 1
    /\ processed = {}
    /\ clusters = <<>>
    /\ seeds = <<>>
    /\ consensus_claims = <<>>
    /\ divergences = <<>>
    /\ emergent_insights = <<>>
    /\ insights = <<>>
    /\ result = None
    /\ calls = 0
    /\ stopwords = AppStopWords
    /\ call = None
    /\ ret = None
    /\ num_ais = DefaultNumAis
    /\ contents = [i \in Slots |-> ""]
    /\ stored = <<>>
    /\ rendered = DefaultNumAis
    /\ runs = 1

\* The user types a text into a text area the last run rendered
EditText ==
    \E i \in Slots, text \in WidgetTexts :
        /\ i < rendered
        /\ text # contents[i]
        /\ Run(stored, num_ais, [contents EXCEPT ![i] = text], Settings)
        /\ pc' = "rendered"
        /\ UNCHANGED <<responses, result, epsilon, similarity_threshold, min_length,
                       num_ais, analysis_vars>>

\* render_sidebar: the button "Appliquer Preset"
ApplyPreset ==
    \E p \in PresetNames :
        /\ presets[p] # Settings
        /\ SetSettings(presets[p])
        /\ Run(stored, num_ais, contents, presets[p])
        /\ pc' = "rendered"
        /\ UNCHANGED <<responses, result, num_ais, analysis_vars>>

\* render_sidebar: the slider "Epsilon"
SetEpsilon ==
    \E e \in SliderEpsilons :
        /\ e # epsilon
        /\ epsilon' = e
        /\ Run(stored, num_ais, contents, [Settings EXCEPT !.epsilon = e])
        /\ pc' = "rendered"
        /\ UNCHANGED <<responses, result, similarity_threshold, min_length, num_ais,
                       analysis_vars>>

\* render_sidebar: the slider "Seuil similarité"
SetThreshold ==
    \E t \in SliderThresholds :
        /\ t # similarity_threshold
        /\ similarity_threshold' = t
        /\ Run(stored, num_ais, contents, Settings)
        /\ pc' = "rendered"
        /\ UNCHANGED <<responses, result, epsilon, min_length, num_ais, analysis_vars>>

\* render_sidebar: the number input "Longueur min"
SetMinLength ==
    \E m \in SliderMinLengths :
        /\ m # min_length
        /\ min_length' = m
        /\ Run(stored, num_ais, contents, [Settings EXCEPT !.min_length = m])
        /\ pc' = "rendered"
        /\ UNCHANGED <<responses, result, epsilon, similarity_threshold, num_ais,
                       analysis_vars>>

\* render_sidebar: the number input "Nombre d'IA"
SetNumAis ==
    \E n \in MinAis..MaxSlots :
        /\ n # num_ais
        /\ num_ais' = n
        /\ Run(stored, n, contents, Settings)
        /\ pc' = "rendered"
        /\ UNCHANGED <<responses, result, epsilon, similarity_threshold, min_length,
                       analysis_vars>>

\* render_sidebar: the button "Réinitialiser"; the input section then runs on
\* the emptied dict
Reset ==
    /\ result' = None
    /\ Run(<<>>, num_ais, contents, Settings)
    /\ pc' = "rendered"
    /\ UNCHANGED <<responses, epsilon, similarity_threshold, min_length, num_ais,
                   analysis_vars>>

\* render_input_section: the button "Charger Exemple"; load_example ends with
\* st.rerun(), and the run it starts renders the input section on the example
LoadExample ==
    /\ Run(Example, num_ais, contents, Settings)
    /\ pc' = "rendered"
    /\ UNCHANGED <<responses, result, epsilon, similarity_threshold, min_length,
                   num_ais, analysis_vars>>

\* NordiqueLMCApp.analyze_responses, when the run reaches the button
Analysis(valid) ==
    /\ responses' = valid
    /\ result' \in analyze_responses(valid, similarity_threshold)
    /\ pc' = "done"

\* render_input_section: the button "Analyser Consensus", which the last run
\* showed when it reached the end of the section with two valid records. The
\* run the click starts reaches the button again unless its loop raises.
Analyze ==
    /\ rendered = num_ais
    /\ Len(ValidResponses(stored, min_length)) >= 2
    /\ Run(stored, num_ais, contents, Settings)
    /\ IF Rendering(stored, num_ais) = num_ais
       THEN Analysis(ValidMapping(stored', min_length))
       ELSE pc' = "rendered" /\ UNCHANGED <<responses, result>>
    /\ UNCHANGED <<epsilon, similarity_threshold, min_length, num_ais, analysis_vars>>

NextApp ==
    \/ EditText
    \/ ApplyPreset
    \/ SetEpsilon
    \/ SetThreshold
    \/ SetMinLength
    \/ SetNumAis
    \/ Reset
    \/ LoadExample
    \/ Analyze

SpecApp == InitApp /\ [][NextApp]_vars

-----------------------------------------------------------------------------
(* What the claims speak of, computed from the input texts alone.          *)

NumAgents == Len(responses)
Returned == pc = "done"
Analyzed == pc = "done" /\ NumAgents >= 2
WordsAt(i) == WordsOfText(responses[i].content)
LocalFreq(i, w) == Cardinality({k \in 1..Len(WordsAt(i)) : WordsAt(i)[k] = w})
AgentsHolding(w) == {i \in 1..NumAgents : LocalFreq(i, w) > 0}
AllWords == UNION {Range(WordsAt(i)) : i \in 1..NumAgents}
\* All word occurrences: agents in input order, words in text order.
Occurrences == Concat(WordsAt, 1, NumAgents)
TotalIn(occ, w) == Cardinality({k \in 1..Len(occ) : occ[k] = w})
FirstIn(occ, w) == CHOOSE k \in 1..Len(occ) : occ[k] = w /\ \A m \in 1..(k - 1) : occ[m] # w
TotalFreq(w) == TotalIn(Occurrences, w)
AgentIndex(name) == CHOOSE i \in 1..NumAgents : responses[i].name = name
NoRepeat(seq) == \A i, j \in 1..Len(seq) : i # j => seq[i] # seq[j]

-----------------------------------------------------------------------------
(* The claims.                                                             *)

\* C1: analyze_responses on a mapping of 0 or 1 agents returns concepts = [],
\* claims = [], confidence = 0.0, divergences = [], insights = {} (a mapping with
\* no key at all) and emergent_insights = [], whatever the text of the agent is.
C1_FewAgentsEmptyResult ==
    (Returned /\ NumAgents < 2) =>
        /\ result.consensus.concepts = <<>>
        /\ result.consensus.claims = <<>>
        /\ result.consensus.confidence.num = 0
        /\ result.divergences = <<>>
        /\ DOMAIN result.insights = {}
        /\ result.emergent_insights = <<>>

\* C1 witness: a single agent whose text alone holds a word three times and
\* the call has returned.
C1_Witness ==
    /\ Returned
    /\ NumAgents = 1
    /\ \E w \in AllWords : TotalFreq(w) >= 3
    /\ result.consensus.concepts = <<>>

\* C2: for a mapping of at least 2 agents the result has at most 30 consensus
\* concepts, at most 15 consensus claims, at most 10 emergent insights, and no
\* Divergence lists more than 10 concepts.
C2_TopKBounds ==
    Analyzed =>
        /\ Len(result.consensus.concepts) <= 30
        /\ Len(result.consensus.claims) <= 15
        /\ Len(result.emergent_insights) <= 10
        /\ \A d \in 1..Len(result.divergences) : Len(result.divergences[d].concepts) <= 10

\* C2 witness: more than 15 clusters had gathered support and 15 are returned.
C2_Witness ==
    /\ Analyzed
    /\ Len(clusters) > 15
    /\ Len(result.consensus.claims) = 15

\* C3: every returned Claim has support = len(ais), support >= 2 and
\* confidence = support / (number of agents of the mapping).
C3_ClaimFields ==
    Analyzed =>
        \A c \in 1..Len(result.consensus.claims) :
            LET cl == result.consensus.claims[c]
            IN  /\ cl.support = Len(cl.ais)
                /\ cl.support >= 2
                /\ FracEq(cl.confidence, Frac(cl.support, NumAgents))

\* C3 witness: a Claim supported by 3 of 4 agents is returned.
C3_Witness ==
    /\ Analyzed
    /\ NumAgents = 4
    /\ \E c \in 1..Len(result.consensus.claims) :
          /\ result.consensus.claims[c].support = 3
          /\ NoRepeat(result.consensus.claims[c].ais)

\* C4: in every returned Claim no agent name occurs twice in ais, so support
\* never exceeds the number of agents and confidence lies in (0, 1].
C4_SupportersFormSet ==
    Analyzed =>
        \A c \in 1..Len(result.consensus.claims) :
            LET cl == result.consensus.claims[c]
            IN  /\ NoRepeat(cl.ais)
                /\ cl.support <= NumAgents
                /\ FracGt(cl.confidence, Frac(0, 1))
                /\ FracGeq(Frac(1, 1), cl.confidence)

\* C5: when a seed is processed, every later agent holding a claim that no
\* earlier seed consumed and whose similarity to the seed reaches the threshold
\* is recorded as a supporter of the seed's cluster (so k agents holding the same
\* claim sentence all support the cluster seeded by the first of them).
C5_EveryLaterHolderSupports ==
    \A e \in 1..Len(seeds) :
        ~seeds[e].skipped =>
            \A j \in (seeds[e].ai + 1)..NumAgents :
                (\E k \in 1..Len(all_claims[j]) :
                    /\ all_claims[j][k] \notin seeds[e].before
                    /\ FracGeq(claims_similarity(seeds[e].claim, all_claims[j][k]),
                               similarity_threshold))
                => responses[j].name \in Range(seeds[e].supporting_ais)

\* C6: a claim taken into a cluster is consumed - it joins no second cluster
\* and never later acts as a seed - and a seed is consumed once processed,
\* with or without support; so a claim text represents at most one returned
\* Claim, and no supporter of one returned Claim represents another.
C6_ClaimsConsumedOnce ==
    LET Passes == {e \in 1..Len(seeds) : ~seeds[e].skipped}
        Cluster(e) == Range(seeds[e].similar_claims)
        PassOf(text) == CHOOSE e \in Passes : seeds[e].claim = text
    IN  /\ \A e \in 1..Len(seeds) : seeds[e].claim \in processed
        /\ \A e \in Passes : Cluster(e) \subseteq processed
        /\ \A a, b \in Passes : a < b => Cluster(a) \cap Cluster(b) = {}
        /\ Returned /\ NumAgents >= 2 =>
              /\ NoRepeat([c \in 1..Len(result.consensus.claims) |->
                              result.consensus.claims[c].claim])
              /\ \A c, d \in 1..Len(result.consensus.claims) :
                    c # d => result.consensus.claims[d].claim
                                 \notin Cluster(PassOf(result.consensus.claims[c].claim))

\* C6 witness: a supporter's claim came up again as claim1 and was skipped,
\* after a seed without support and a seed with support had been processed.
C6_Witness ==
    /\ Analyzed
    /\ \E a, b, c \in 1..Len(seeds) :
          /\ a < c /\ b < c
          /\ ~seeds[a].skipped /\ Len(seeds[a].supporting_ais) >= 2
          /\ ~seeds[b].skipped /\ Len(seeds[b].supporting_ais) = 1
          /\ seeds[c].skipped
          /\ seeds[c].claim # seeds[a].claim
          /\ seeds[c].claim \in Range(seeds[a].similar_claims)

C8_ConceptsShared ==
    Analyzed =>
        \A c \in 1..Len(result.consensus.concepts) :
            Cardinality(AgentsHolding(result.consensus.concepts[c])) >= 2

\* C9: for every returned Divergence, score = (length of its reported concepts
\* list) / max(number of consensus concepts, 1).
C9_ScoreOfReportedList ==
    Analyzed =>
        \A d \in 1..Len(result.divergences) :
            FracEq(result.divergences[d].score,
                   Frac(Len(result.divergences[d].concepts),
                        Max2(Len(result.consensus.concepts), 1)))

\* C10: at most one Divergence per agent, each with a non-empty concepts list
\* whose concepts have local frequency >= 2 in that agent's text, are not among
\* the returned consensus concepts and are in order of non-increasing local
\* frequency; the Divergences are in order of non-increasing score.
C10_Divergences ==
    Analyzed =>
        LET dv == result.divergences
        IN  /\ NoRepeat([d \in 1..Len(dv) |-> dv[d].ai])
            /\ \A d \in 1..Len(dv) :
                  LET a == AgentIndex(dv[d].ai)
                      cs == dv[d].concepts
                  IN  /\ dv[d].ai \in {responses[i].name : i \in 1..NumAgents}
                      /\ cs # <<>>
                      /\ \A k \in 1..Len(cs) :
                            /\ LocalFreq(a, cs[k]) >= 2
                            /\ cs[k] \notin Range(result.consensus.concepts)
                      /\ \A k \in 1..(Len(cs) - 1) :
                            LocalFreq(a, cs[k]) >= LocalFreq(a, cs[k + 1])
            /\ \A d \in 1..(Len(dv) - 1) : FracGeq(dv[d].score, dv[d + 1].score)

\* C10 witness: two Divergences of different scores, the higher one of the
\* later agent, one of them listing concepts of different local frequencies
\* while a word of frequency >= 2 in its text is left out as a consensus concept.
C10_Witness ==
    /\ Analyzed
    /\ Len(result.divergences) >= 2
    /\ FracGt(result.divergences[1].score, result.divergences[2].score)
    /\ AgentIndex(result.divergences[1].ai) > AgentIndex(result.divergences[2].ai)
    /\ \E d \in 1..Len(result.divergences) :
          LET a == AgentIndex(result.divergences[d].ai)
              cs == result.divergences[d].concepts
          IN  /\ Len(cs) >= 2
              /\ LocalFreq(a, cs[1]) > LocalFreq(a, cs[Len(cs)])
              /\ \E w \in Range(result.consensus.concepts) : LocalFreq(a, w) >= 2

\* C11: every concept of emergent_insights is held by exactly two agents of
\* the mapping, so no concept occurs in two EmergentInsights of different pairs.
C11_ConceptOfOnePair ==
    Analyzed =>
        \A e \in 1..Len(result.emergent_insights) :
            LET x == result.emergent_insights[e]
            IN  /\ Cardinality(AgentsHolding(x.concept1)) = 2
                /\ \A f \in 1..Len(result.emergent_insights) :
                      LET y == result.emergent_insights[f]
                      IN  y.concept1 = x.concept1 => (y.ai1 = x.ai1 /\ y.ai2 = x.ai2)

\* C12: every EmergentInsight names two distinct agents, ai1 before ai2 in input
\* order, one concept (concept1 = concept2) of local frequency >= 2 in both and
\* held by at most half of the agents, similarity = min(freq1, freq2) /
\* max(freq1, freq2) in (0, 1], rarity1 = rarity2 = 1 / (number of agents holding
\* the concept); the list is in order of non-increasing rarity.
C12_InsightFields ==
    Analyzed =>
        LET em == result.emergent_insights
        IN  /\ \A e \in 1..Len(em) :
                  LET x == em[e]
                      a1 == AgentIndex(x.ai1)
                      a2 == AgentIndex(x.ai2)
                      freq1 == LocalFreq(a1, x.concept1)
                      freq2 == LocalFreq(a2, x.concept1)
                      holders == Cardinality(AgentsHolding(x.concept1))
                  IN  /\ x.ai1 # x.ai2
                      /\ a1 < a2
                      /\ x.concept1 = x.concept2
                      /\ freq1 >= 2 /\ freq2 >= 2
                      /\ 2 * holders <= NumAgents
                      /\ FracEq(x.similarity, Frac(Min2(freq1, freq2), Max2(freq1, freq2)))
                      /\ FracGt(x.similarity, Frac(0, 1))
                      /\ FracGeq(Frac(1, 1), x.similarity)
                      /\ FracEq(x.rarity1, Frac(1, holders))
                      /\ FracEq(x.rarity2, Frac(1, holders))
            /\ \A e \in 1..(Len(em) - 1) : FracGeq(em[e].rarity1, em[e + 1].rarity1)

\* C12 witness: insights of different rarities are returned, one of them with
\* different local frequencies in its two agents.
C12_Witness ==
    /\ Analyzed
    /\ Len(result.emergent_insights) >= 2
    /\ FracGt(result.emergent_insights[1].rarity1,
              result.emergent_insights[Len(result.emergent_insights)].rarity1)
    /\ \E e \in 1..Len(result.emergent_insights) :
          FracGt(Frac(1, 1), result.emergent_insights[e].similarity)

\* C13: in the insights of a result for >= 2 agents every listed word is a
\* returned consensus concept and stands in one bucket only: that of the first
\* category (structure, processus, impact, relation) one of whose keywords is a
\* substring of the word; a concept that holds no keyword stands in no bucket.
C13_OneBucket ==
    Analyzed =>
        LET ins == result.insights
            order == <<"structure", "processus", "impact", "relation">>
            Holds(w, m) ==
                \E k \in 1..Len(keywords[order[m]]) : Contains(w, keywords[order[m]][k])
        IN  /\ DOMAIN ins = Range(order)
            /\ \A m \in 1..4 :
                  \A w \in Range(ins[order[m]]) :
                      /\ w \in Range(result.consensus.concepts)
                      /\ Holds(w, m)
                      /\ \A q \in 1..(m - 1) : ~Holds(w, q)
                      /\ \A q \in 1..4 : q # m => w \notin Range(ins[order[q]])

\* C13 witness: a concept with keywords of two categories stands in a bucket,
\* another bucket is filled too, and a concept without keyword is returned.
C13_Witness ==
    /\ Analyzed
    /\ \E w \in Range(result.insights.impact) :
          MatchesCategory(w, "impact") /\ MatchesCategory(w, "relation")
    /\ result.insights.structure # <<>>
    /\ result.insights.relation # <<>>
    /\ \E w \in Range(result.consensus.concepts) :
          \A m \in 1..Len(Categories) : ~MatchesCategory(w, Categories[m])

\* C14: for >= 2 agents the confidence is min(1, 0.6 * min(nConcepts / 20, 1)
\* + 0.4 * min(nClaims / 10, 1)) of the lengths of the returned concept and claim
\* lists; it lies in [0, 1] and is 1 exactly when nConcepts >= 20 and nClaims >= 10.
C14_Confidence ==
    Analyzed =>
        LET nConcepts == Len(result.consensus.concepts)
            nClaims == Len(result.consensus.claims)
            confidence == result.consensus.confidence
        IN  /\ FracEq(confidence,
                      Frac(6 * Min2(nConcepts, 20) + 8 * Min2(nClaims, 10), 200))
            /\ FracGeq(confidence, Frac(0, 1))
            /\ FracGeq(Frac(1, 1), confidence)
            /\ FracEq(confidence, Frac(1, 1)) <=> (nConcepts >= 20 /\ nClaims >= 10)

\* C14 witness: at least 20 concepts and 10 claims are returned with confidence 1.
C14_Witness ==
    /\ Analyzed
    /\ Len(result.consensus.concepts) >= 20
    /\ Len(result.consensus.claims) >= 10
    /\ FracEq(result.consensus.confidence, Frac(1, 1))

\* C15: after any sequence of analyze_responses calls on one analyzer, each
\* call returns what a fresh analyzer would return for the same mapping; the
\* threshold, the calculator's epsilon and stopwords never change, and the
\* mapping a call was given is the same at every step of that call.
C15_NoCarryOver ==
    /\ [](Returned => result \in analyze_responses(responses, similarity_threshold))
    /\ [][/\ similarity_threshold' = similarity_threshold
          /\ epsilon' = epsilon
          /\ stopwords' = stopwords
          /\ calls' = calls => responses' = responses]_vars

\* C15 witness: a second call on the same analyzer has returned consensus
\* claims, the call before it having left its own set of processed claims.
C15_Witness ==
    /\ calls >= 2
    /\ Returned
    /\ result.consensus.claims # <<>>
    /\ seeds # <<>>
    /\ seeds[1].before = {}

\* The Levenshtein distance of a and b, by its recurrence on the last characters
RECURSIVE Levenshtein(_, _)
Levenshtein(a, b) ==
    IF Len(a) = 0 THEN Len(b)
    ELSE IF Len(b) = 0 THEN Len(a)
    ELSE LET a0 == SubSeq(a, 1, Len(a) - 1)
             b0 == SubSeq(b, 1, Len(b) - 1)
         IN  IF Char(a, Len(a)) = Char(b, Len(b)) THEN Levenshtein(a0, b0)
             ELSE 1 + Min2(Levenshtein(a0, b0), Min2(Levenshtein(a0, b), Levenshtein(a, b0)))

SimilarityCalled == call.method = "calculate_similarity"

\* C16: calculate_similarity on two empty texts returns 1.0.
C16_EmptyTextsAlike ==
    (SimilarityCalled /\ call.copy = "lmc_calculator.py" /\ call.args = <<"", "">>)
        => FracEq(ret.value, Frac(1, 1))

\* 1 - Levenshtein(lower a, lower b) / (length of the longer text)
NormalizedLevenshtein(a, b) ==
    Frac(Max2(Len(a), Len(b)) - Levenshtein(lower(a), lower(b)), Max2(Len(a), Len(b)))

\* C17: for all non-empty texts a and b, calculate_similarity(a, b) is 1 minus
\* the Levenshtein distance of the lowercased texts over the length of the
\* longer text, so it lies in [0, 1] and is 1 when a = b (symmetry follows
\* from the value), in the library module and in the copy embedded in app.py.
C17_NormalizedEditDistance ==
    (SimilarityCalled /\ call.args[1] # "" /\ call.args[2] # "")
        => /\ FracEq(ret.value, NormalizedLevenshtein(call.args[1], call.args[2]))
           /\ FracGeq(ret.value, Frac(0, 1))
           /\ FracGeq(Frac(1, 1), ret.value)
           /\ call.args[1] = call.args[2] => FracEq(ret.value, Frac(1, 1))

\* C17, of the library module alone
C17_LibraryCopy ==
    call.copy = "lmc_calculator.py" => C17_NormalizedEditDistance

\* The lowercase words of length >= 4 of a claim: the maximal runs of word
\* characters that are at least 4 long
QualifyingWords(claim) ==
    LET t == lower(claim)
        IsWord(i, j) ==
            /\ \A k \in i..j : Char(t, k) \in WordClass
            /\ i = 1 \/ Char(t, i - 1) \notin WordClass
            /\ j = Len(t) \/ Char(t, j + 1) \notin WordClass
    IN  {SubSeq(t, i, j) : <<i, j>> \in {x \in (1..Len(t)) \X (1..Len(t)) :
                                            x[2] >= x[1] + 3 /\ IsWord(x[1], x[2])}}

\* What C18 says of a call claims_similarity(a, b) that returned value
JaccardOfWords(a, b, value) ==
    LET A == QualifyingWords(a)
        B == QualifyingWords(b)
    IN  /\ FracEq(value, claims_similarity(b, a))
        /\ FracGeq(value, Frac(0, 1))
        /\ FracGeq(Frac(1, 1), value)
        /\ (A = {} \/ B = {}) => FracEq(value, Frac(0, 1))
        /\ (A # {} /\ B # {})
               => FracEq(value, Frac(Cardinality(A \cap B), Cardinality(A \cup B)))
        /\ FracEq(value, Frac(1, 1)) <=> (A = B /\ A # {})

\* C18: claims_similarity is the Jaccard index of the two claims' sets of
\* lowercase words of length >= 4: symmetric, within [0, 1], 0 when either
\* claim has no such word, and 1 exactly when the two sets are equal and
\* non-empty.
C18_JaccardIndex ==
    call.method = "claims_similarity"
        => JaccardOfWords(call.args[1], call.args[2], ret.value)

\* C18 witness: two claims whose word sets overlap without being equal, and
\* whose similarity is strictly between 0 and 1 and not the ratio to either set
C18_Witness ==
    /\ call.method = "claims_similarity"
    /\ QualifyingWords(call.args[1]) = {"miel", "aide", "toux"}
    /\ QualifyingWords(call.args[2]) = {"toux_1", "miel"}
    /\ FracEq(ret.value, Frac(1, 4))

CoherenceCalled == call.method = "calculate_coherence"

\* C19, as stated: for every text of length >= 50 with at most one qualifying
\* sentence under the split_sentences rule (length strictly between 20 and
\* 500), calculate_coherence returns exactly 0.5.
C19_SplitSentencesRule ==
    (CoherenceCalled /\ Len(call.args[1]) >= 50
                     /\ Len(split_sentences(call.args[1])) <= 1)
        => ret.value = Frac(1, 2)

\* The pieces of text longer than 20 characters between the separators "one
\* of .!? and the whitespace after it", as pairs of positions
LongPieces(text) ==
    LET Punct(k) == Char(text, k) \in PunctClass /\ k < Len(text)
                        /\ Char(text, k + 1) \in SpaceClass
        Separator(k) ==
            \/ Punct(k)
            \/ /\ Char(text, k) \in SpaceClass
               /\ \E q \in 1..(k - 1) :
                      Punct(q) /\ \A j \in (q + 1)..k : Char(text, j) \in SpaceClass
        Piece(i, j) ==
            /\ \A k \in i..j : ~Separator(k)
            /\ i = 1 \/ Separator(i - 1)
            /\ j = Len(text) \/ Separator(j + 1)
    IN  {x \in (1..Len(text)) \X (1..Len(text)) : x[2] >= x[1] + 20 /\ Piece(x[1], x[2])}

\* C19, amended: for every text of length >= 50 with at most one piece longer
\* than 20 characters between the separators of calculate_coherence itself
\* (one of .!? followed by whitespace), calculate_coherence returns exactly 0.5.
C19_OwnSentenceRule ==
    (CoherenceCalled /\ Len(call.args[1]) >= 50
                     /\ Cardinality(LongPieces(call.args[1])) <= 1)
        => ret.value = Frac(1, 2)

\* C19 witness: a text of two paragraphs and no sentence end, one piece for
\* calculate_coherence and two sentences for split_sentences, returned 0.5
C19_Witness ==
    /\ CoherenceCalled
    /\ Len(call.args[1]) >= 50
    /\ Cardinality(LongPieces(call.args[1])) = 1
    /\ Len(split_sentences(call.args[1])) = 2
    /\ ret.value = Frac(1, 2)

\* C20: calculate_lmc_score never raises: for every text, texts shorter than
\* 50 characters included, and for epsilon = 0, it returns a score.
C20_ScoreNeverRaises ==
    call.method = "calculate_lmc_score" => "value" \in DOMAIN ret

\* C20 for a positive epsilon: the call returns, and score = C / (H + epsilon)
C20_PositiveEpsilon ==
    (call.method = "calculate_lmc_score" /\ epsilon.num > 0)
        => /\ "value" \in DOMAIN ret
           /\ FracEq(FracMul(ret.value.score, FracAdd(ret.value.H, epsilon)), ret.value.C)

\* The strings of found occur in text one after the other, from position p on
RECURSIVE InOrder(_, _, _, _)
InOrder(text, found, k, p) ==
    IF k > Len(found) THEN TRUE
    ELSE \E q \in p..(Len(text) - Len(found[k]) + 1) :
             /\ SubSeq(text, q, q + Len(found[k]) - 1) = found[k]
             /\ InOrder(text, found, k + 1, q + Len(found[k]))

\* C21: every string split_sentences returns is longer than 20 and shorter
\* than 500 characters, the strings come in the order of the text, and every
\* claim extract_claims returns is longer than 20 and shorter than 500 too.
C21_SentenceLengths ==
    /\ call.method = "split_sentences"
           => /\ \A i \in 1..Len(ret.value) :
                     20 < Len(ret.value[i]) /\ Len(ret.value[i]) < 500
              /\ InOrder(call.args[1], ret.value, 1, 1)
    /\ call.method = "extract_claims"
           => \A i \in 1..Len(ret.value) :
                  20 < Len(ret.value[i]) /\ Len(ret.value[i]) < 500

\* C21 without the lower bound: order and the upper bound of the lengths
C21_OrderAndUpperBound ==
    call.method \in {"split_sentences", "extract_claims"}
        => /\ \A i \in 1..Len(ret.value) : Len(ret.value[i]) < 500
           /\ InOrder(call.args[1], ret.value, 1, 1)

\* C22: the emergent_insights list, its order and its top-10 cut, is a
\* function of the input mapping alone: any run of analyze_responses on the
\* mapping of this run returns the list this run returned.
C22_InsightsDetermined ==
    Analyzed => \A other \in find_emergent_insights(responses) :
                    other = result.emergent_insights

\* The slot of a key
SlotOf(key) == CHOOSE i \in 0..(MaxAis - 1) : KeyOf(i) = key

\* A record made from what the user typed; load_example stores records of its own
Typed(r) == r \notin Range(Example)

\* The analysis of the run just made read only records of shown slots, each
\* with the text its slot holds now
AnalysisCurrent ==
    \A k \in 1..Len(responses) :
        \E i \in 0..(num_ais - 1) :
            /\ responses[k].name = KeyOf(i)
            /\ responses[k].content = contents[i]
            /\ Len(contents[i]) >= min_length

\* C23: in the app, after any edits and runs, the record stored for a shown
\* slot is the one made from the text the slot holds now and the epsilon set
\* now, and an analysis reads no record of a slot beyond the shown ones and no
\* content the user has replaced.
C23_NeverStale ==
    /\ \A k \in 1..Len(stored) :
           Typed(stored[k]) /\ SlotOf(stored[k].key) < num_ais
               => stored[k] = NewResponse(SlotOf(stored[k].key),
                                          contents[SlotOf(stored[k].key)], epsilon)
    /\ pc = "done" => AnalysisCurrent

\* C24: for a mapping of 2 or 3 agents emergent_insights is empty: a concept
\* common to a pair is held by 2 agents at least, more than half of 2 or 3.
C24_FewAgentsNoInsight ==
    Analyzed /\ NumAgents <= 3 => result.emergent_insights = <<>>

\* C24 witness: 3 agents, two of which and no other hold a concept twice each,
\* and no insight is returned.
C24_Witness ==
    /\ Analyzed
    /\ NumAgents = 3
    /\ \E w \in AllWords :
          /\ Cardinality(AgentsHolding(w)) = 2
          /\ \A a \in AgentsHolding(w) : LocalFreq(a, w) >= 2
    /\ result.emergent_insights = <<>>

=============================================================================
